---- MODULE Spec2Model ----
(***************************************************************************)
(* MonthlyPortfolioBot: the snapshot store (src/src/snapshot_service.py),  *)
(* the period-change fallback chain of the analyzer                        *)
(* (src/src/portfolio_analyzer.py) and their collaborators.                *)
(*                                                                         *)
(* Strings that the code builds (S3 keys, formatted dates) are sequences   *)
(* of characters; Python's Optional is the pair None / Some(v); money is   *)
(* an integer number of dollars and a percentage is an exact fraction.     *)
(* The retirement projection (src/src/retirement_tracker.py) computes with *)
(* exact fractions where Python computes with floats.                      *)
(***************************************************************************)
EXTENDS Integers, Sequences, FiniteSets, TLC

VARIABLES
    s3,          \* the bucket: S3 key -> stored JSON document
    saved,       \* history: S3 key -> equity/cash of the last successful save
    last,        \* the last call of the snapshot service and what it returned
    today,       \* the wall clock's calendar date
    run,         \* the account analysis in progress and its last report
    tracker,     \* the RetirementTracker, once constructed: its config
    client,      \* the RobinhoodClient, once constructed: its _logged_in
    handler      \* the invocation of lambda_handler in progress

vars == <<s3, saved, last, today, run, tracker, client, handler>>

----------------------------------------------------------------------------
(* Bounds and input sets *)

\* the most objects the bucket takes
MaxObjects == 2

\* list_objects_v2 returns at most this many keys per call (1000 in S3;
\* scaled down so that an account can hold more snapshots than one page)
S3MaxKeys == 1

\* account numbers; "1" is a proper prefix of "12"
Accounts == {<<"1">>, <<"1", "2">>}

\* the calendar dates of the clock and of timestamps: the last day of a
\* year, the first day of the next, the first day of a later month and a
\* day in the middle of it
Dates ==
    { [y |-> 2023, m |-> 12, d |-> 31],
      [y |-> 2024, m |-> 1,  d |-> 1],
      [y |-> 2024, m |-> 2,  d |-> 1],
      [y |-> 2024, m |-> 2,  d |-> 15] }

\* times of day of a timestamp
Times == {"09:00", "17:30"}

\* equity and cash as the brokerage reports them
Quotes ==
    { [equity |-> -100,  cash |-> 0],
      [equity |-> 0,     cash |-> 50],
      [equity |-> 10000, cash |-> 50],
      [equity |-> 10500, cash |-> 0] }

\* what an S3 read can do besides answering: fail with a client error
\* other than NoSuchKey, or deliver a body that does not parse to a snapshot
ReadFaults == {"none", "client_error", "bad_body"}

\* what an S3 write can do besides storing: fail with a client error, or
\* fail before the request with any other exception
WriteFaults == {"none", "client_error", "error"}

\* get_latest_snapshot lists, then reads
LatestFaults == {"none", "list_error", "client_error", "bad_body"}

\* calculate_period_change reads twice: the faults of the two reads
CalcFaults ==
    { <<"none", "none">>, <<"client_error", "none">>, <<"none", "bad_body">> }

----------------------------------------------------------------------------
(* Python values *)

None == [kind |-> "none"]
Some(v) == [kind |-> "some", val |-> v]
\* an exception that leaves the called function
Raised(e) == [kind |-> "raise", exc |-> e]

\* a / b for b # 0 as a fraction in lowest terms
RECURSIVE Gcd(_, _)
Gcd(a, b) == IF b = 0 THEN a ELSE Gcd(b, a % b)

Abs(n) == IF n < 0 THEN -n ELSE n

Frac(a, b) ==
    LET g == Gcd(Abs(a), Abs(b))
        sign == IF b < 0 THEN -1 ELSE 1
    IN  [num |-> sign * (a \div g), den |-> Abs(b) \div g]

Zero == [num |-> 0, den |-> 1]

----------------------------------------------------------------------------
(* Dates and keys *)

Digit(n) == <<"0", "1", "2", "3", "4", "5", "6", "7", "8", "9">>[n + 1]

\* strftime("%Y-%m-%d")
strftime(d) ==
    << Digit(d.y \div 1000), Digit((d.y \div 100) % 10),
       Digit((d.y \div 10) % 10), Digit(d.y % 10), "-",
       Digit(d.m \div 10), Digit(d.m % 10), "-",
       Digit(d.d \div 10), Digit(d.d % 10) >>

SNAPSHOT_PREFIX == <<"portfolio-snapshots">>

\* f"{SNAPSHOT_PREFIX}/account-{account_number}/"
AccountPrefix(account_number) ==
    SNAPSHOT_PREFIX \o <<"/", "account-">> \o account_number \o <<"/">>

\* f"{SNAPSHOT_PREFIX}/account-{account_number}/{date_str}.json"
SnapshotKey(account_number, d) ==
    AccountPrefix(account_number) \o strftime(d) \o <<".json">>

\* code point order of the characters that keys are made of
Ord(c) ==
    CASE c = "-" -> 45
      [] c = "/" -> 47
      [] c = "0" -> 48 [] c = "1" -> 49 [] c = "2" -> 50 [] c = "3" -> 51
      [] c = "4" -> 52 [] c = "5" -> 53 [] c = "6" -> 54 [] c = "7" -> 55
      [] c = "8" -> 56 [] c = "9" -> 57
      [] c = ".json" -> 46
      [] c = "account-" -> 97
      [] c = "portfolio-snapshots" -> 112

IsPrefix(p, k) ==
    /\ Len(p) <= Len(k)
    /\ \A i \in 1..Len(p) : p[i] = k[i]

\* Python's str < str: the first differing character decides, a proper
\* prefix is smaller
KeyLess(j, k) ==
    \/ /\ Len(j) < Len(k)
       /\ IsPrefix(j, k)
    \/ \E i \in 1..(IF Len(j) < Len(k) THEN Len(j) ELSE Len(k)) :
          /\ \A n \in 1..(i - 1) : j[n] = k[n]
          /\ Ord(j[i]) < Ord(k[i])

\* calendar order
DateLess(d, e) ==
    \/ d.y < e.y
    \/ d.y = e.y /\ d.m < e.m
    \/ d.y = e.y /\ d.m = e.m /\ d.d < e.d

----------------------------------------------------------------------------
(* PortfolioSnapshot *)

PortfolioSnapshot(account_number, timestamp, equity, cash) ==
    [account_number |-> account_number, timestamp |-> timestamp,
     equity |-> equity, cash |-> cash]

\* the document json.dumps writes
to_dict(snapshot) ==
    [account_number |-> snapshot.account_number,
     timestamp |-> snapshot.timestamp,
     equity |-> snapshot.equity,
     cash |-> snapshot.cash]

from_dict(data) ==
    PortfolioSnapshot(data.account_number, data.timestamp, data.equity, data.cash)

\* datetime.isoformat(): the date and the time of day
isoformat(timestamp) == strftime(timestamp.date) \o <<"T", timestamp.time>>

----------------------------------------------------------------------------
(* S3 *)

put_object(bucket, key, body) ==
    [k \in DOMAIN bucket \cup {key} |-> IF k = key THEN body ELSE bucket[k]]

\* the first S3MaxKeys keys, in key order, that start with the prefix
list_objects_v2(bucket, prefix) ==
    LET matching == {k \in DOMAIN bucket : IsPrefix(prefix, k)}
    IN  {k \in matching :
            Cardinality({j \in matching : KeyLess(j, k)}) < S3MaxKeys}

\* sorted(contents, key=lambda x: x["Key"])[-1]["Key"]
SortedLast(contents) ==
    CHOOSE k \in contents : \A j \in contents : j = k \/ KeyLess(j, k)

----------------------------------------------------------------------------
(* SnapshotService *)

\* save_snapshot with the key built from the whole timestamp
save_snapshot_by_time(bucket, account_number, equity, cash, timestamp, fault) ==
    LET snapshot == PortfolioSnapshot(account_number, isoformat(timestamp),
                                      equity, cash)
        key == AccountPrefix(account_number) \o isoformat(timestamp)
                   \o <<".json">>
    IN  IF fault = "none"
        THEN [ret |-> TRUE, s3 |-> put_object(bucket, key, to_dict(snapshot))]
        ELSE [ret |-> FALSE, s3 |-> bucket]

\* save_snapshot that keeps one snapshot per account
save_snapshot_keep_one(bucket, account_number, equity, cash, timestamp, fault) ==
    LET snapshot == PortfolioSnapshot(account_number, isoformat(timestamp),
                                      equity, cash)
        key == SnapshotKey(account_number, timestamp.date)
        others == {k \in DOMAIN bucket :
                      ~IsPrefix(AccountPrefix(account_number), k)}
    IN  IF fault = "none"
        THEN [ret |-> TRUE,
              s3 |-> put_object([k \in others |-> bucket[k]], key,
                                to_dict(snapshot))]
        ELSE [ret |-> FALSE, s3 |-> bucket]

\* save_snapshot that removes the old object before it writes the new one
save_snapshot_delete_first(bucket, account_number, equity, cash, timestamp, fault) ==
    LET snapshot == PortfolioSnapshot(account_number, isoformat(timestamp),
                                      equity, cash)
        key == SnapshotKey(account_number, timestamp.date)
    IN  IF fault = "none"
        THEN [ret |-> TRUE, s3 |-> put_object(bucket, key, to_dict(snapshot))]
        ELSE [ret |-> FALSE,
              s3 |-> [k \in DOMAIN bucket \ {key} |-> bucket[k]]]

\* save_snapshot that brings the cash of the account's other snapshots up
\* to date
save_snapshot_sync_cash(bucket, account_number, equity, cash, timestamp, fault) ==
    LET snapshot == PortfolioSnapshot(account_number, isoformat(timestamp),
                                      equity, cash)
        key == SnapshotKey(account_number, timestamp.date)
        written == put_object(bucket, key, to_dict(snapshot))
    IN  IF fault = "none"
        THEN [ret |-> TRUE,
              s3 |-> [k \in DOMAIN written |->
                         IF IsPrefix(AccountPrefix(account_number), k)
                         THEN [written[k] EXCEPT !.cash = cash]
                         ELSE written[k]]]
        ELSE [ret |-> FALSE, s3 |-> bucket]

\* returns the boolean and the bucket after the call
save_snapshot(bucket, account_number, equity, cash, timestamp, fault) ==
    LET snapshot == PortfolioSnapshot(account_number, isoformat(timestamp),
                                      equity, cash)
        key == SnapshotKey(account_number, timestamp.date)
    IN  IF fault = "none"
        THEN [ret |-> TRUE, s3 |-> put_object(bucket, key, to_dict(snapshot))]
        ELSE [ret |-> FALSE, s3 |-> bucket]

\* get_snapshot that falls back to the account's latest earlier snapshot
get_snapshot_nearest(bucket, account_number, snapshot_date, fault) ==
    LET key == SnapshotKey(account_number, snapshot_date)
        earlier == {k \in DOMAIN bucket :
                       /\ IsPrefix(AccountPrefix(account_number), k)
                       /\ KeyLess(k, key)}
    IN  IF fault = "client_error" THEN None
        ELSE IF key \notin DOMAIN bucket /\ earlier = {} THEN None
        ELSE IF fault = "bad_body" THEN None
        ELSE IF key \in DOMAIN bucket THEN Some(from_dict(bucket[key]))
        ELSE Some(from_dict(bucket[SortedLast(earlier)]))

\* get_snapshot that handles the missing key only
get_snapshot_raising(bucket, account_number, snapshot_date, fault) ==
    LET key == SnapshotKey(account_number, snapshot_date)
    IN  IF fault = "client_error" THEN Raised("ClientError")
        ELSE IF key \notin DOMAIN bucket THEN None
        ELSE IF fault = "bad_body" THEN Raised("ValueError")
        ELSE Some(from_dict(bucket[key]))

get_snapshot(bucket, account_number, snapshot_date, fault) ==
    LET key == SnapshotKey(account_number, snapshot_date)
    IN  IF fault = "client_error" THEN None
        ELSE IF key \notin DOMAIN bucket THEN None
        ELSE IF fault = "bad_body" THEN None
        ELSE Some(from_dict(bucket[key]))

get_latest_snapshot(bucket, account_number, fault) ==
    LET contents == list_objects_v2(bucket, AccountPrefix(account_number))
    IN  IF fault = "list_error" THEN None
        ELSE IF contents = {} THEN None
        ELSE IF fault \in {"client_error", "bad_body"} THEN None
        ELSE Some(from_dict(bucket[SortedLast(contents)]))

\* calculate_period_change that takes a start equity of 0 or less for missing
calculate_period_change_needs_equity(bucket, account_number, start_date, end_date, now, f1, f2) ==
    LET end == IF end_date = None THEN now ELSE end_date.val
        start_snapshot == get_snapshot(bucket, account_number, start_date, f1)
        end_snapshot == get_snapshot(bucket, account_number, end, f2)
    IN  IF start_snapshot.kind = "raise" THEN start_snapshot
        ELSE IF end_snapshot.kind = "raise" THEN end_snapshot
        ELSE IF start_snapshot = None \/ end_snapshot = None THEN None
        ELSE IF start_snapshot.val.equity <= 0 THEN None
        ELSE LET change_dollars ==
                     end_snapshot.val.equity - start_snapshot.val.equity
                 change_percent ==
                     IF start_snapshot.val.equity > 0
                     THEN Frac(change_dollars * 100, start_snapshot.val.equity)
                     ELSE Zero
             IN  Some([change_dollars |-> change_dollars,
                       change_percent |-> change_percent,
                       start_equity |-> start_snapshot.val.equity,
                       end_equity |-> end_snapshot.val.equity])

\* calculate_period_change on equity plus cash
calculate_period_change_with_cash(bucket, account_number, start_date, end_date, now, f1, f2) ==
    LET end == IF end_date = None THEN now ELSE end_date.val
        start_snapshot == get_snapshot(bucket, account_number, start_date, f1)
        end_snapshot == get_snapshot(bucket, account_number, end, f2)
    IN  IF start_snapshot.kind = "raise" THEN start_snapshot
        ELSE IF end_snapshot.kind = "raise" THEN end_snapshot
        ELSE IF start_snapshot = None \/ end_snapshot = None THEN None
        ELSE LET change_dollars ==
                     (end_snapshot.val.equity + end_snapshot.val.cash)
                         - (start_snapshot.val.equity + start_snapshot.val.cash)
                 change_percent ==
                     IF start_snapshot.val.equity > 0
                     THEN Frac(change_dollars * 100, start_snapshot.val.equity)
                     ELSE Zero
             IN  Some([change_dollars |-> change_dollars,
                       change_percent |-> change_percent,
                       start_equity |-> start_snapshot.val.equity,
                       end_equity |-> end_snapshot.val.equity])

\* calculate_period_change that guards the division with != 0
calculate_period_change_nonzero_guard(bucket, account_number, start_date, end_date, now, f1, f2) ==
    LET end == IF end_date = None THEN now ELSE end_date.val
        start_snapshot == get_snapshot(bucket, account_number, start_date, f1)
        end_snapshot == get_snapshot(bucket, account_number, end, f2)
    IN  IF start_snapshot.kind = "raise" THEN start_snapshot
        ELSE IF end_snapshot.kind = "raise" THEN end_snapshot
        ELSE IF start_snapshot = None \/ end_snapshot = None THEN None
        ELSE LET change_dollars ==
                     end_snapshot.val.equity - start_snapshot.val.equity
                 change_percent ==
                     IF start_snapshot.val.equity # 0
                     THEN Frac(change_dollars * 100, start_snapshot.val.equity)
                     ELSE Zero
             IN  Some([change_dollars |-> change_dollars,
                       change_percent |-> change_percent,
                       start_equity |-> start_snapshot.val.equity,
                       end_equity |-> end_snapshot.val.equity])

calculate_period_change(bucket, account_number, start_date, end_date, now, f1, f2) ==
    LET end == IF end_date = None THEN now ELSE end_date.val
        start_snapshot == get_snapshot(bucket, account_number, start_date, f1)
        end_snapshot == get_snapshot(bucket, account_number, end, f2)
    IN  IF start_snapshot.kind = "raise" THEN start_snapshot
        ELSE IF end_snapshot.kind = "raise" THEN end_snapshot
        ELSE IF start_snapshot = None \/ end_snapshot = None THEN None
        ELSE LET change_dollars ==
                     end_snapshot.val.equity - start_snapshot.val.equity
                 change_percent ==
                     IF start_snapshot.val.equity > 0
                     THEN Frac(change_dollars * 100, start_snapshot.val.equity)
                     ELSE Zero
             IN  Some([change_dollars |-> change_dollars,
                       change_percent |-> change_percent,
                       start_equity |-> start_snapshot.val.equity,
                       end_equity |-> end_snapshot.val.equity])

----------------------------------------------------------------------------
(* The snapshot service called directly *)

Idle == [pc |-> "idle"]

\* no call of the snapshot service is being looked at
Returned == [op |-> "none"]

MinDate == CHOOSE d \in Dates : \A e \in Dates : e = d \/ DateLess(d, e)

Init ==
    /\ s3 = << >>
    /\ saved = << >>
    /\ last = Returned
    /\ today = MinDate
    /\ run = Idle
    /\ tracker = None
    /\ client = None
    /\ handler = Idle

SaveSnapshot(a, q, d, t, fault) ==
    LET timestamp == [date |-> d, time |-> t]
        key == SnapshotKey(a, d)
        r == save_snapshot(s3, a, q.equity, q.cash, timestamp, fault)
    IN  /\ last = Returned
        /\ run = Idle
        /\ key \in DOMAIN s3 \/ Cardinality(DOMAIN s3) < MaxObjects
        /\ s3' = r.s3
        /\ saved' = IF r.ret THEN put_object(saved, key, q) ELSE saved
        /\ last' = [op |-> "save_snapshot", account |-> a, date |-> d,
                    quote |-> q, time |-> t, fault |-> fault, ret |-> r.ret,
                    before |-> IF key \in DOMAIN s3 THEN Some(s3[key]) ELSE None]
        /\ UNCHANGED <<today, run, tracker, client, handler>>

GetSnapshot(a, d, fault) ==
    /\ last = Returned
    /\ run = Idle
    /\ last' = [op |-> "get_snapshot", account |-> a, date |-> d,
                fault |-> fault, ret |-> get_snapshot(s3, a, d, fault)]
    /\ UNCHANGED <<s3, saved, today, run, tracker, client, handler>>

GetLatestSnapshot(a, fault) ==
    /\ last = Returned
    /\ run = Idle
    /\ last' = [op |-> "get_latest_snapshot", account |-> a, fault |-> fault,
                ret |-> get_latest_snapshot(s3, a, fault)]
    /\ UNCHANGED <<s3, saved, today, run, tracker, client, handler>>

CalculatePeriodChange(a, start, end, f1, f2) ==
    /\ last = Returned
    /\ run = Idle
    /\ last' = [op |-> "calculate_period_change", account |-> a,
                start |-> start, end |-> end, fault_start |-> f1,
                fault_end |-> f2,
                ret |-> calculate_period_change(s3, a, start, end, today, f1, f2)]
    /\ UNCHANGED <<s3, saved, today, run, tracker, client, handler>>

\* the caller takes the returned value and goes on
Return ==
    /\ last # Returned
    /\ last' = Returned
    /\ UNCHANGED <<s3, saved, today, run, tracker, client, handler>>

\* the whole service, every save made in the morning
Next ==
    \/ \E a \in Accounts, q \in Quotes, d \in Dates, fault \in WriteFaults :
          SaveSnapshot(a, q, d, "09:00", fault)
    \/ \E a \in Accounts, d \in Dates, fault \in ReadFaults :
          GetSnapshot(a, d, fault)
    \/ \E a \in Accounts, fault \in LatestFaults : GetLatestSnapshot(a, fault)
    \/ \E a \in Accounts, start \in Dates,
          end \in {None} \cup {Some(d) : d \in Dates}, f \in CalcFaults :
          CalculatePeriodChange(a, start, end, f[1], f[2])
    \/ Return

Spec == Init /\ [][Next]_vars

\* the store alone, saves at any time of day
StoreQuotes == {q \in Quotes : q.equity >= 10000}

NextStore ==
    \/ \E a \in Accounts, q \in StoreQuotes, d \in Dates, t \in Times,
          fault \in WriteFaults : SaveSnapshot(a, q, d, t, fault)
    \/ \E a \in Accounts, d \in Dates, fault \in ReadFaults :
          GetSnapshot(a, d, fault)
    \/ \E a \in Accounts, fault \in LatestFaults : GetLatestSnapshot(a, fault)
    \/ Return

SpecStore == Init /\ [][NextStore]_vars

----------------------------------------------------------------------------
(* RobinhoodClient, as the analyzer of one account sees it *)

\* what the API calls of get_portfolio_value_for_account give: the account's
\* equity and cash, or an exception
PortfolioValues ==
    { Some([equity |-> 10000, cash |-> 50]),
      Some([equity |-> 10500, cash |-> 0]),
      Raised("Exception") }

\* raises when login() has not succeeded or logout() has been called
_ensure_logged_in(logged_in) ==
    IF ~logged_in THEN Raised("RuntimeError") ELSE None

\* the check of the session comes before the try; an exception of the API
\* calls is logged and raised again
get_portfolio_value_for_account(logged_in, pv) ==
    IF _ensure_logged_in(logged_in) # None THEN _ensure_logged_in(logged_in)
    ELSE pv

\* the faults of the two snapshot reads of one period calculation
AnalyzeFaults == { <<"none", "none">>, <<"none", "bad_body">> }

\* open positions of an account
HoldingsLists ==
    { << >>,
      << [quantity |-> 10, average_buy_price |-> 20, current_price |-> 25] >> }

\* what the API does during calculate_account_performance
PerfFaults == {"none", "error"}

\* the loop over the holdings: total_cost_basis and total_gain_loss
RECURSIVE TotalCostBasis(_)
TotalCostBasis(holdings) ==
    IF holdings = << >> THEN 0
    ELSE LET h == Head(holdings)
         IN  h.quantity * h.average_buy_price + TotalCostBasis(Tail(holdings))

RECURSIVE TotalGainLoss(_)
TotalGainLoss(holdings) ==
    IF holdings = << >> THEN 0
    ELSE LET h == Head(holdings)
         IN  (h.quantity * h.current_price - h.quantity * h.average_buy_price)
                 + TotalGainLoss(Tail(holdings))

calculate_account_performance(holdings, fault) ==
    IF fault # "none" THEN None
    ELSE LET total_cost_basis == TotalCostBasis(holdings)
             total_gain_loss == TotalGainLoss(holdings)
         IN  Some([cost_basis |-> total_cost_basis,
                   gain_loss_dollars |-> total_gain_loss,
                   gain_loss_percent |->
                       IF total_cost_basis > 0
                       THEN Frac(total_gain_loss * 100, total_cost_basis)
                       ELSE Zero,
                   holdings_count |-> Len(holdings)])

get_historical_portfolio_for_account(logged_in, holdings, fault) ==
    LET holdings_perf == calculate_account_performance(holdings, fault)
    IN  IF _ensure_logged_in(logged_in) # None THEN _ensure_logged_in(logged_in)
        ELSE IF holdings_perf = None THEN None
        ELSE Some([change_dollars |-> holdings_perf.val.gain_loss_dollars,
                   change_percent |-> holdings_perf.val.gain_loss_percent,
                   data_points |-> holdings_perf.val.holdings_count,
                   method |-> "holdings_based"])

----------------------------------------------------------------------------
(* PortfolioAnalyzer: one account *)

\* round(x, 2) of a fraction: the nearest hundredth, ties to even
Round2(x) ==
    LET scaled == x.num * 100
        q == scaled \div x.den
        r == scaled % x.den
        n == IF 2 * r > x.den THEN q + 1
             ELSE IF 2 * r < x.den THEN q
             ELSE IF q % 2 = 0 THEN q ELSE q + 1
    IN  Frac(n, 100)

\* today.replace(day=1)
FirstOfMonth(d) == [d EXCEPT !.d = 1]
\* today.replace(month=1, day=1)
FirstOfYear(d) == [d EXCEPT !.m = 1, !.d = 1]

Spans == {"month", "year"}

\* _calculate_period_change_from_snapshots that takes every span other than
\* 'year' for a month
PeriodChangeFromSnapshotsAnySpan(bucket, account_number, span, now, f) ==
    LET start_date == IF span = "year" THEN FirstOfYear(now)
                      ELSE FirstOfMonth(now)
        period_change ==
            calculate_period_change(bucket, account_number, start_date,
                                    Some(now), now, f[1], f[2])
    IN  IF period_change.kind = "some"
        THEN Some([dollars |-> period_change.val.change_dollars,
                   percent |-> period_change.val.change_percent])
        ELSE None

_calculate_period_change_from_snapshots(bucket, account_number, span, now, f) ==
    IF span \notin {"month", "year"} THEN None
    ELSE LET start_date == IF span = "month" THEN FirstOfMonth(now)
                           ELSE FirstOfYear(now)
             period_change ==
                 calculate_period_change(bucket, account_number, start_date,
                                         Some(now), now, f[1], f[2])
         IN  IF period_change.kind = "some"
             THEN Some([dollars |-> period_change.val.change_dollars,
                        percent |-> period_change.val.change_percent])
             ELSE None

\* _calculate_period_change_for_account with the holdings estimate first
PeriodChangeHoldingsFirst(bucket, svc, logged_in, a, span, now, f, holdings, pf) ==
    LET period_change ==
            _calculate_period_change_from_snapshots(bucket, a, span, now, f)
        historical ==
            get_historical_portfolio_for_account(logged_in, holdings, pf)
        first == <<[tier |-> "holdings", result |-> historical]>>
    IN  IF historical.kind = "raise"
        THEN [ret |-> historical, via |-> "raise", consulted |-> first]
        ELSE IF historical # None
        THEN [ret |-> [dollars |-> historical.val.change_dollars,
                       percent |-> historical.val.change_percent],
              via |-> "holdings", consulted |-> first]
        ELSE IF svc /\ period_change # None
        THEN [ret |-> period_change.val, via |-> "snapshots",
              consulted |-> first \o <<[tier |-> "snapshots",
                                        result |-> period_change]>>]
        ELSE [ret |-> [dollars |-> 0, percent |-> Zero], via |-> "zero",
              consulted |-> first]

\* _calculate_period_change_for_account without its last return statement:
\* with no data from either tier the function returns None
PeriodChangeNoFallback(bucket, svc, logged_in, a, span, now, f, holdings, pf) ==
    LET period_change ==
            _calculate_period_change_from_snapshots(bucket, a, span, now, f)
        historical ==
            get_historical_portfolio_for_account(logged_in, holdings, pf)
        first == IF svc
                 THEN <<[tier |-> "snapshots", result |-> period_change]>>
                 ELSE << >>
        second == first \o <<[tier |-> "holdings", result |-> historical]>>
    IN  IF svc /\ period_change # None
        THEN [ret |-> period_change.val, via |-> "snapshots",
              consulted |-> first]
        ELSE IF historical.kind = "raise"
        THEN [ret |-> historical, via |-> "raise", consulted |-> second]
        ELSE IF historical # None
        THEN [ret |-> [dollars |-> historical.val.change_dollars,
                       percent |-> historical.val.change_percent],
              via |-> "holdings", consulted |-> second]
        ELSE [ret |-> None, via |-> "zero", consulted |-> second]

\* the change (or the exception that leaves the function), the return
\* statement that gave it, and the tiers consulted with what each returned
_calculate_period_change_for_account(bucket, svc, logged_in, a, span, now, f, holdings, pf) ==
    LET period_change ==
            _calculate_period_change_from_snapshots(bucket, a, span, now, f)
        historical ==
            get_historical_portfolio_for_account(logged_in, holdings, pf)
        first == IF svc
                 THEN <<[tier |-> "snapshots", result |-> period_change]>>
                 ELSE << >>
        second == first \o <<[tier |-> "holdings", result |-> historical]>>
    IN  IF svc /\ period_change # None
        THEN [ret |-> period_change.val, via |-> "snapshots",
              consulted |-> first]
        ELSE IF historical.kind = "raise"
        THEN [ret |-> historical, via |-> "raise", consulted |-> second]
        ELSE IF historical # None
        THEN [ret |-> [dollars |-> historical.val.change_dollars,
                       percent |-> historical.val.change_percent],
              via |-> "holdings", consulted |-> second]
        ELSE [ret |-> [dollars |-> 0, percent |-> Zero], via |-> "zero",
              consulted |-> second]

\* the account type that analyze derives from the account's profile
AccountType(a) == IF Len(a) = 1 THEN "individual" ELSE "roth_ira"

AccountReport(account_type, a, total_value, cash_balance, monthly, ytd) ==
    [account_type |-> account_type,
     account_number |-> a,
     total_value |-> total_value,
     cash_balance |-> cash_balance,
     monthly_change_dollars |-> monthly.dollars,
     monthly_change_percent |-> Round2(monthly.percent),
     ytd_change_dollars |-> ytd.dollars,
     ytd_change_percent |-> Round2(ytd.percent)]

\* an exception in place of a value
IsRaise(v) == "kind" \in DOMAIN v /\ v.kind = "raise"

\* change["dollars"] and change["percent"] can be read
HasChangeKeys(change) == {"dollars", "percent"} \subseteq DOMAIN change

\* _analyze_account up to the snapshot it saves: fetch the account's value
\* and save it under the clock's date
StartAnalysis(a, svc, logged_in, api, t, fault) ==
    LET pv == get_portfolio_value_for_account(logged_in, api)
        key == SnapshotKey(a, today)
        r == save_snapshot(s3, a, pv.val.equity, pv.val.cash,
                           [date |-> today, time |-> t], fault)
    IN  /\ run = Idle
        /\ last = Returned
        /\ IF pv.kind = "raise"
           THEN /\ run' = [pc |-> "done", account |-> a, report |-> pv]
                /\ UNCHANGED <<s3, saved>>
           ELSE IF ~svc
           THEN /\ fault = "none"
                /\ run' = [pc |-> "month", account |-> a, svc |-> svc,
                           logged_in |-> logged_in,
                           value |-> pv.val, save |-> None, fault |-> fault,
                           key |-> key, before |-> None]
                /\ UNCHANGED <<s3, saved>>
           ELSE /\ key \in DOMAIN s3 \/ Cardinality(DOMAIN s3) < MaxObjects
                /\ s3' = r.s3
                /\ saved' = IF r.ret THEN put_object(saved, key, pv.val)
                            ELSE saved
                /\ run' = [pc |-> "month", account |-> a, svc |-> svc,
                           logged_in |-> logged_in,
                           value |-> pv.val, save |-> Some(r.ret),
                           fault |-> fault, key |-> key,
                           before |-> IF key \in DOMAIN s3 THEN Some(s3[key])
                                      ELSE None]
        /\ UNCHANGED <<last, today, tracker, client, handler>>

\* the holdings are fetched, then the month's change is computed; an
\* exception of the computation leaves _analyze_account
MonthlyChange(f, holdings, pf) ==
    /\ run.pc = "month"
    /\ LET monthly == _calculate_period_change_for_account(s3, run.svc,
                          run.logged_in, run.account, "month", today, f,
                          holdings, pf)
       IN  run' = [run EXCEPT !.pc = IF IsRaise(monthly.ret) THEN "done"
                                     ELSE "year"] @@
                  [monthly |-> monthly,
                   monthly_in |-> [now |-> today, f |-> f]] @@
                  (IF IsRaise(monthly.ret) THEN [report |-> monthly.ret]
                   ELSE << >>)
    /\ UNCHANGED <<s3, saved, last, today, tracker, client, handler>>

\* the year's change is computed and the report is built
YtdChange(f, holdings, pf) ==
    /\ run.pc = "year"
    /\ LET ytd == _calculate_period_change_for_account(s3, run.svc,
                      run.logged_in, run.account, "year", today, f,
                      holdings, pf)
       IN  run' = [run EXCEPT !.pc = "done"] @@
                  [ytd |-> ytd,
                   ytd_in |-> [now |-> today, f |-> f],
                   report |->
                       IF IsRaise(ytd.ret) THEN ytd.ret
                       ELSE IF ~HasChangeKeys(run.monthly.ret)
                               \/ ~HasChangeKeys(ytd.ret)
                       THEN Raised("TypeError")
                       ELSE Some(AccountReport(AccountType(run.account),
                                     run.account, run.value.equity,
                                     run.value.cash, run.monthly.ret,
                                     ytd.ret))]
    /\ UNCHANGED <<s3, saved, last, today, tracker, client, handler>>

\* analyze takes the report (or the exception) and goes on
Finish ==
    /\ run.pc = "done"
    /\ run' = Idle
    /\ UNCHANGED <<s3, saved, last, today, tracker, client, handler>>

\* the clock moves to a later date
Tick(d) ==
    /\ DateLess(today, d)
    /\ today' = d
    /\ UNCHANGED <<s3, saved, last, run, tracker, client, handler>>

NextAnalyze ==
    \/ \E a \in Accounts, svc \in BOOLEAN, logged_in \in BOOLEAN,
          api \in PortfolioValues, fault \in {"none", "client_error"} :
          StartAnalysis(a, svc, logged_in, api, "09:00", fault)
    \/ \E f \in AnalyzeFaults, holdings \in HoldingsLists, pf \in PerfFaults :
          MonthlyChange(f, holdings, pf)
    \/ \E f \in AnalyzeFaults, holdings \in HoldingsLists, pf \in PerfFaults :
          YtdChange(f, holdings, pf)
    \/ Finish
    \/ \E d \in Dates : Tick(d)
    \/ \E a \in Accounts, d \in Dates, fault \in ReadFaults :
          GetSnapshot(a, d, fault)
    \/ Return

SpecAnalyze == Init /\ [][NextAnalyze]_vars

----------------------------------------------------------------------------
(* The period calculation of the analyzer called for one span *)

\* the spans the methods document: the two the analysis asks for and two
\* others
AnySpans == {"month", "year", "week", "all"}

\* analyzer._calculate_period_change_from_snapshots(account_number, span)
PeriodChangeFromSnapshots(a, span, f) ==
    /\ last = Returned
    /\ run = Idle
    /\ last' = [op |-> "_calculate_period_change_from_snapshots",
                account |-> a, span |-> span, now |-> today, f |-> f,
                ret |-> _calculate_period_change_from_snapshots(s3, a, span,
                                                                 today, f)]
    /\ UNCHANGED <<s3, saved, today, run, tracker, client, handler>>

\* analyzer._calculate_period_change_for_account(account_number, span) of
\* an analyzer with a snapshot service and a logged-in client
PeriodChangeForAccount(a, span, f, holdings, pf) ==
    LET r == _calculate_period_change_for_account(s3, TRUE, TRUE, a, span,
                                                   today, f, holdings, pf)
    IN  /\ last = Returned
        /\ run = Idle
        /\ last' = [op |-> "_calculate_period_change_for_account",
                    account |-> a, span |-> span, now |-> today, f |-> f,
                    ret |-> r.ret, via |-> r.via, consulted |-> r.consulted]
        /\ UNCHANGED <<s3, saved, today, run, tracker, client, handler>>

NextPeriod ==
    \/ \E a \in Accounts, q \in StoreQuotes, d \in Dates :
          SaveSnapshot(a, q, d, "09:00", "none")
    \/ \E a \in Accounts, span \in AnySpans, f \in AnalyzeFaults :
          PeriodChangeFromSnapshots(a, span, f)
    \/ \E a \in Accounts, span \in AnySpans, f \in AnalyzeFaults,
          holdings \in HoldingsLists, pf \in PerfFaults :
          PeriodChangeForAccount(a, span, f, holdings, pf)
    \/ \E d \in Dates : Tick(d)
    \/ Return

SpecPeriod == Init /\ [][NextPeriod]_vars

----------------------------------------------------------------------------
(* Arithmetic of the retirement projection: Python's float operators on    *)
(* exact fractions in lowest terms                                         *)

One == [num |-> 1, den |-> 1]

\* x + y
Add(x, y) ==
    LET g == Gcd(x.den, y.den)
    IN  Frac(x.num * (y.den \div g) + y.num * (x.den \div g),
             (x.den \div g) * y.den)

\* x - y
Sub(x, y) == Add(x, [num |-> -y.num, den |-> y.den])

\* x * y
Mul(x, y) ==
    LET g1 == Gcd(Abs(x.num), y.den)
        g2 == Gcd(Abs(y.num), x.den)
    IN  [num |-> (x.num \div g1) * (y.num \div g2),
         den |-> (x.den \div g2) * (y.den \div g1)]

\* x / y for y # 0
Div(x, y) == Mul(x, Frac(y.den, y.num))

\* x <= y, x < y
Leq(x, y) == x.num * y.den <= y.num * x.den
Lt(x, y) == x.num * y.den < y.num * x.den

\* max(x, y)
Max(x, y) == IF Lt(x, y) THEN y ELSE x

\* x ** n for an int n >= 0, by repeated squaring
RECURSIVE Pow(_, _)
Pow(x, n) ==
    IF n = 0 THEN One
    ELSE IF n % 2 = 1 THEN Mul(x, Pow(x, n - 1))
    ELSE LET half == Pow(x, n \div 2) IN Mul(half, half)

\* round(x, ndigits) for ndigits 1 or 2: the whole part is kept and the
\* rest is rounded to the nearest tenth or hundredth, ties to even
Round(x, ndigits) ==
    LET unit == IF ndigits = 1 THEN 10 ELSE 100
        whole == x.num \div x.den
        scaled == (x.num % x.den) * unit
        q == whole * unit + (scaled \div x.den)
        r == scaled % x.den
        n == IF 2 * r > x.den THEN q + 1
             ELSE IF 2 * r < x.den THEN q
             ELSE IF q % 2 = 0 THEN q ELSE q + 1
    IN  IF x.den = 1 THEN x ELSE Frac(n, unit)

----------------------------------------------------------------------------
(* RetirementTracker *)

\* the dataclass whose __post_init__ derives the age only when no age was
\* passed (current_age left at its default of 0)
RetirementConfigKeepsPassedAge(target_amount, target_age, current_age, monthly_contribution, assumed_annual_return, birth_year, now) ==
    [target_amount |-> target_amount,
     target_age |-> target_age,
     current_age |-> IF birth_year # None /\ current_age = 0
                     THEN now.y - birth_year.val
                     ELSE current_age,
     monthly_contribution |-> monthly_contribution,
     assumed_annual_return |-> assumed_annual_return,
     birth_year |-> birth_year]

\* the dataclass after __post_init__: a birth year replaces current_age by
\* the clock's year minus the birth year
RetirementConfig(target_amount, target_age, current_age, monthly_contribution, assumed_annual_return, birth_year, now) ==
    [target_amount |-> target_amount,
     target_age |-> target_age,
     current_age |-> IF birth_year # None THEN now.y - birth_year.val
                     ELSE current_age,
     monthly_contribution |-> monthly_contribution,
     assumed_annual_return |-> assumed_annual_return,
     birth_year |-> birth_year]

RetirementProgress(current_value, target_amount, percent_complete, years_remaining, monthly_needed, on_track, projected_value, surplus_or_deficit) ==
    [current_value |-> current_value,
     target_amount |-> target_amount,
     percent_complete |-> percent_complete,
     years_remaining |-> years_remaining,
     monthly_needed |-> monthly_needed,
     on_track |-> on_track,
     projected_value |-> projected_value,
     surplus_or_deficit |-> surplus_or_deficit]

\* _project_future_value that counts one contribution a year
ProjectFutureValueYearly(current, monthly_contribution, years, annual_return) ==
    IF years <= 0 THEN current
    ELSE LET months == years * 12
             monthly_return == Div(annual_return, Frac(12, 1))
             growth == Pow(Add(One, monthly_return), months)
             fv_current == Mul(current, growth)
             fv_contributions ==
                 IF Lt(Zero, monthly_return) /\ Lt(Zero, monthly_contribution)
                 THEN Mul(monthly_contribution,
                          Div(Sub(growth, One), monthly_return))
                 ELSE Mul(monthly_contribution, Frac(years, 1))
         IN  Add(fv_current, fv_contributions)

\* _project_future_value without the test of the rate: the annuity formula
\* divides by a monthly rate of zero
ProjectFutureValueNoGuard(current, monthly_contribution, years, annual_return) ==
    IF years <= 0 THEN current
    ELSE LET months == years * 12
             monthly_return == Div(annual_return, Frac(12, 1))
             growth == Pow(Add(One, monthly_return), months)
             fv_current == Mul(current, growth)
         IN  IF monthly_return = Zero THEN Raised("ZeroDivisionError")
             ELSE Add(fv_current,
                      Mul(monthly_contribution,
                          Div(Sub(growth, One), monthly_return)))

_project_future_value(current, monthly_contribution, years, annual_return) ==
    IF years <= 0 THEN current
    ELSE LET months == years * 12
             monthly_return == Div(annual_return, Frac(12, 1))
             growth == Pow(Add(One, monthly_return), months)
             fv_current == Mul(current, growth)
             fv_contributions ==
                 IF Lt(Zero, monthly_return) /\ Lt(Zero, monthly_contribution)
                 THEN Mul(monthly_contribution,
                          Div(Sub(growth, One), monthly_return))
                 ELSE Mul(monthly_contribution, Frac(months, 1))
         IN  Add(fv_current, fv_contributions)

\* _calculate_monthly_needed that needs nothing once the target age is
\* reached
MonthlyNeededZeroAtTargetAge(current, target, years, annual_return) ==
    IF years <= 0 THEN Zero
    ELSE LET months == years * 12
             monthly_return == Div(annual_return, Frac(12, 1))
             growth == Pow(Add(One, monthly_return), months)
             needed_from_contributions == Sub(target, Mul(current, growth))
         IN  IF Leq(needed_from_contributions, Zero) THEN Zero
             ELSE IF Lt(Zero, monthly_return)
             THEN Div(Mul(needed_from_contributions, monthly_return),
                      Sub(growth, One))
             ELSE Div(needed_from_contributions, Frac(months, 1))

\* _calculate_monthly_needed that takes the gap from the current value
\* instead of from its future value
MonthlyNeededFromCurrent(current, target, years, annual_return) ==
    IF years <= 0 THEN Max(Zero, Sub(target, current))
    ELSE LET months == years * 12
             monthly_return == Div(annual_return, Frac(12, 1))
             growth == Pow(Add(One, monthly_return), months)
             needed_from_contributions == Sub(target, current)
         IN  IF Leq(needed_from_contributions, Zero) THEN Zero
             ELSE IF Lt(Zero, monthly_return)
             THEN Div(Mul(needed_from_contributions, monthly_return),
                      Sub(growth, One))
             ELSE Div(needed_from_contributions, Frac(months, 1))

\* _calculate_monthly_needed with the test of the gap the wrong way round
MonthlyNeededInvertedTest(current, target, years, annual_return) ==
    IF years <= 0 THEN Max(Zero, Sub(target, current))
    ELSE LET months == years * 12
             monthly_return == Div(annual_return, Frac(12, 1))
             growth == Pow(Add(One, monthly_return), months)
             needed_from_contributions == Sub(target, Mul(current, growth))
         IN  IF Leq(Zero, needed_from_contributions) THEN Zero
             ELSE IF Lt(Zero, monthly_return)
             THEN Div(Mul(needed_from_contributions, monthly_return),
                      Sub(growth, One))
             ELSE Div(needed_from_contributions, Frac(months, 1))

_calculate_monthly_needed(current, target, years, annual_return) ==
    IF years <= 0 THEN Max(Zero, Sub(target, current))
    ELSE LET months == years * 12
             monthly_return == Div(annual_return, Frac(12, 1))
             growth == Pow(Add(One, monthly_return), months)
             fv_current == Mul(current, growth)
             needed_from_contributions == Sub(target, fv_current)
         IN  IF Leq(needed_from_contributions, Zero) THEN Zero
             ELSE IF Lt(Zero, monthly_return)
             THEN Div(Mul(needed_from_contributions, monthly_return),
                      Sub(growth, One))
             ELSE Div(needed_from_contributions, Frac(months, 1))

\* the years to the target age without the floor at 0
YearsRemainingSigned(config) == config.target_age - config.current_age

\* max(0, target_age - current_age)
YearsRemaining(config) ==
    IF config.target_age - config.current_age > 0
    THEN config.target_age - config.current_age
    ELSE 0

\* calculate_progress that is on track only above the target
calculate_progress_strict(config, current_portfolio_value) ==
    LET years_remaining == YearsRemaining(config)
        projected_value ==
            _project_future_value(current_portfolio_value,
                config.monthly_contribution, years_remaining,
                config.assumed_annual_return)
        monthly_needed ==
            _calculate_monthly_needed(current_portfolio_value,
                config.target_amount, years_remaining,
                config.assumed_annual_return)
    IN  IF config.target_amount = Zero THEN Raised("ZeroDivisionError")
        ELSE Some(RetirementProgress(
                 Round(current_portfolio_value, 2),
                 Round(config.target_amount, 2),
                 Round(Mul(Div(current_portfolio_value, config.target_amount),
                           Frac(100, 1)), 1),
                 years_remaining,
                 Round(Max(Zero, monthly_needed), 2),
                 Lt(config.target_amount, projected_value),
                 Round(projected_value, 2),
                 Round(Sub(projected_value, config.target_amount), 2)))

\* the division by a target of zero raises before anything is returned; an
\* exception of a helper leaves calculate_progress
calculate_progress(config, current_portfolio_value) ==
    LET years_remaining == YearsRemaining(config)
        projected_value ==
            _project_future_value(current_portfolio_value,
                config.monthly_contribution, years_remaining,
                config.assumed_annual_return)
        monthly_needed ==
            _calculate_monthly_needed(current_portfolio_value,
                config.target_amount, years_remaining,
                config.assumed_annual_return)
    IN  IF config.target_amount = Zero THEN Raised("ZeroDivisionError")
        ELSE IF IsRaise(projected_value) THEN projected_value
        ELSE IF IsRaise(monthly_needed) THEN monthly_needed
        ELSE Some(RetirementProgress(
                 Round(current_portfolio_value, 2),
                 Round(config.target_amount, 2),
                 Round(Mul(Div(current_portfolio_value, config.target_amount),
                           Frac(100, 1)), 1),
                 years_remaining,
                 Round(Max(Zero, monthly_needed), 2),
                 Leq(config.target_amount, projected_value),
                 Round(projected_value, 2),
                 Round(Sub(projected_value, config.target_amount), 2)))

----------------------------------------------------------------------------
(* The tracker as the handler uses it: built from the configuration, then  *)
(* asked for the progress of a portfolio value                             *)

\* target amounts: a debt, nothing, and two goals
TargetAmounts == {Frac(-64, 1), Zero, Frac(64, 1), Frac(500, 1)}

TargetAges == {65}

\* two years and one year before the target age, at it and past it
CurrentAges == {63, 64, 65, 66}

\* no birth year, or one that makes the holder 64 in 2023
BirthYears == {None, Some(1959)}

MonthlyContributions == {Zero, Frac(10, 1)}

\* annual rates whose monthly rates are -1/2, 0 and 1, so that twenty-four
\* months of compounding stay exact fractions
AnnualReturns == {Frac(-6, 1), Zero, Frac(12, 1)}

\* portfolio values: a debit balance, nothing, and the smaller goal (powers
\* of two, which halving twenty-four times leaves with a small denominator)
CurrentValues == {Frac(-64, 1), Zero, Frac(64, 1)}

Configs ==
    { RetirementConfig(t, ta, ca, mc, ar, by, today) :
          t \in TargetAmounts, ta \in TargetAges, ca \in CurrentAges,
          mc \in MonthlyContributions, ar \in AnnualReturns,
          by \in BirthYears }

\* RetirementConfig(...) with every field passed, before the tracker is
\* built: the arguments, the clock and the object that results
NewConfig(t, ta, ca, mc, ar, by) ==
    /\ tracker = None
    /\ last = Returned
    /\ last' = [op |-> "RetirementConfig", target_amount |-> t,
                target_age |-> ta, current_age |-> ca,
                monthly_contribution |-> mc, assumed_annual_return |-> ar,
                birth_year |-> by, now |-> today,
                ret |-> RetirementConfig(t, ta, ca, mc, ar, by, today)]
    /\ UNCHANGED <<s3, saved, today, run, tracker, client, handler>>

\* RetirementTracker(config)
NewTracker(config) ==
    /\ tracker = None
    /\ last = Returned
    /\ tracker' = Some(config)
    /\ UNCHANGED <<s3, saved, last, today, run, client, handler>>

\* tracker.calculate_progress(current_portfolio_value)
CalculateProgress(current_portfolio_value) ==
    /\ tracker # None
    /\ last = Returned
    /\ last' = [op |-> "calculate_progress",
                config |-> tracker.val,
                current_portfolio_value |-> current_portfolio_value,
                ret |-> calculate_progress(tracker.val,
                                           current_portfolio_value)]
    /\ UNCHANGED <<s3, saved, today, run, tracker, client, handler>>

NextRetire ==
    \/ \E t \in TargetAmounts, ta \in TargetAges, ca \in CurrentAges,
          mc \in MonthlyContributions, ar \in AnnualReturns,
          by \in BirthYears : NewConfig(t, ta, ca, mc, ar, by)
    \/ \E config \in Configs : NewTracker(config)
    \/ \E v \in CurrentValues : CalculateProgress(v)
    \/ \E d \in Dates : Tick(d)
    \/ Return

SpecRetire == Init /\ [][NextRetire]_vars

----------------------------------------------------------------------------
(* The projection for amounts and horizons beyond the exact fractions:     *)
(* whole dollars, and the growth factor (1+r)^months as an integer number  *)
(* of 1/GrowthScale, kept between a lower bound that rounds every          *)
(* operation down and an upper bound that rounds every operation up.  For  *)
(* amounts >= 0 and rates >= 0.                                            *)

GrowthScale == 10^5

\* g * (1 + r), rounded down and rounded up
MonthLower(g, r) == g + (g * r.num) \div r.den
MonthUpper(g, r) == g + (g * r.num + r.den - 1) \div r.den

\* g * (1 + r) ** months: the months of the first half, then the others
RECURSIVE GrowLower(_, _, _)
GrowLower(g, r, months) ==
    IF months = 0 THEN g
    ELSE IF months = 1 THEN MonthLower(g, r)
    ELSE LET half == GrowLower(g, r, months \div 2)
         IN  IF half < 0 THEN half
             ELSE GrowLower(half, r, months - months \div 2)

RECURSIVE GrowUpper(_, _, _)
GrowUpper(g, r, months) ==
    IF months = 0 THEN g
    ELSE IF months = 1 THEN MonthUpper(g, r)
    ELSE LET half == GrowUpper(g, r, months \div 2)
         IN  IF half < 0 THEN half
             ELSE GrowUpper(half, r, months - months \div 2)

\* amount * (g / GrowthScale) in dollars, the thousands and the rest of the
\* amount apart, rounded down and rounded up
TimesLower(amount, g) ==
    ((amount \div 1000) * g) \div (GrowthScale \div 1000)
        + ((amount % 1000) * g) \div GrowthScale
TimesUpper(amount, g) ==
    ((amount \div 1000) * g + (GrowthScale \div 1000) - 1)
            \div (GrowthScale \div 1000)
        + ((amount % 1000) * g + GrowthScale - 1) \div GrowthScale

\* _project_future_value that compounds once a year at the annual rate
ProjectionBoundsAnnual(current, monthly_contribution, years, annual_return) ==
    IF years <= 0 THEN [lower |-> current, upper |-> current]
    ELSE LET lower == GrowLower(GrowthScale, annual_return, years)
             upper == GrowUpper(GrowthScale, annual_return, years)
         IN  IF annual_return.num > 0 /\ monthly_contribution > 0
             THEN [lower |-> TimesLower(current, lower)
                      + TimesLower(monthly_contribution,
                            ((lower - GrowthScale) * annual_return.den)
                                \div annual_return.num),
                   upper |-> TimesUpper(current, upper)
                      + TimesUpper(monthly_contribution,
                            ((upper - GrowthScale) * annual_return.den
                                 + annual_return.num - 1)
                                \div annual_return.num)]
             ELSE [lower |-> TimesLower(current, lower)
                                + monthly_contribution * years,
                   upper |-> TimesUpper(current, upper)
                                + monthly_contribution * years]

\* _project_future_value: bounds of the projected value in dollars
ProjectionBounds(current, monthly_contribution, years, annual_return) ==
    IF years <= 0 THEN [lower |-> current, upper |-> current]
    ELSE LET months == years * 12
             monthly_return == Div(annual_return, Frac(12, 1))
             lower == GrowLower(GrowthScale, monthly_return, months)
             upper == GrowUpper(GrowthScale, monthly_return, months)
         IN  IF monthly_return.num > 0 /\ monthly_contribution > 0
             THEN [lower |-> TimesLower(current, lower)
                      + TimesLower(monthly_contribution,
                            ((lower - GrowthScale) * monthly_return.den)
                                \div monthly_return.num),
                   upper |-> TimesUpper(current, upper)
                      + TimesUpper(monthly_contribution,
                            ((upper - GrowthScale) * monthly_return.den
                                 + monthly_return.num - 1)
                                \div monthly_return.num)]
             ELSE [lower |-> TimesLower(current, lower)
                                + monthly_contribution * months,
                   upper |-> TimesUpper(current, upper)
                                + monthly_contribution * months]

\* calculate_progress, the fields that the projection decides: on_track is
\* the set of the values the bounds allow
ProgressBounds(config, current_portfolio_value) ==
    LET years_remaining == YearsRemaining(config)
        projected_value ==
            ProjectionBounds(current_portfolio_value,
                config.monthly_contribution, years_remaining,
                config.assumed_annual_return)
    IN  [years_remaining |-> years_remaining,
         projected_value |-> projected_value,
         on_track |->
             IF projected_value.lower >= config.target_amount THEN {TRUE}
             ELSE IF projected_value.upper < config.target_amount
             THEN {FALSE}
             ELSE BOOLEAN,
         surplus_or_deficit |->
             [lower |-> projected_value.lower - config.target_amount,
              upper |-> projected_value.upper - config.target_amount]]

\* the saver of the worked example at every age from 35, with and without
\* the monthly contribution
ScenarioConfigs ==
    { RetirementConfig(2000000, 65, ca, mc, Frac(7, 100), None, today) :
          ca \in 35..66, mc \in {0, 1000} }

ScenarioValues == {0, 500000}

\* tracker.calculate_progress(current_portfolio_value), in bounds
CalculateProgressBounds(current_portfolio_value) ==
    /\ tracker # None
    /\ last = Returned
    /\ last' = [op |-> "calculate_progress",
                config |-> tracker.val,
                current_portfolio_value |-> current_portfolio_value,
                ret |-> ProgressBounds(tracker.val, current_portfolio_value)]
    /\ UNCHANGED <<s3, saved, today, run, tracker, client, handler>>

NextScenario ==
    \/ \E config \in ScenarioConfigs : NewTracker(config)
    \/ \E v \in ScenarioValues : CalculateProgressBounds(v)
    \/ Return

SpecScenario == Init /\ [][NextScenario]_vars

----------------------------------------------------------------------------
(* RobinhoodClient: the session *)

\* what robin_stocks' login gives back: a dict with an access_token, a dict
\* with a detail, a dict with neither, an empty dict, None, a true value
\* that is no dict, or an exception
LoginResults ==
    {"access_token", "detail", "other_dict", "empty_dict", "none", "non_dict",
     "raises"}

\* RobinhoodClient(username, password, totp_secret)
RobinhoodClient == [logged_in |-> FALSE]

\* login that sets the flag as soon as the result is a dict that is not
\* empty, before it looks for the access_token or the detail
login_flag_first(self, result) ==
    IF result \in {"access_token", "detail", "non_dict"}
    THEN [ret |-> TRUE, self |-> [self EXCEPT !.logged_in = TRUE]]
    ELSE IF result = "other_dict"
    THEN [ret |-> FALSE, self |-> [self EXCEPT !.logged_in = TRUE]]
    ELSE [ret |-> FALSE, self |-> self]

\* login: the boolean and the client after the call
login(self, result) ==
    IF result \in {"access_token", "detail", "non_dict"}
    THEN [ret |-> TRUE, self |-> [self EXCEPT !.logged_in = TRUE]]
    ELSE [ret |-> FALSE, self |-> self]

\* logout: the flag is cleared after rh.logout() unless that call raised
logout(self, fault) ==
    IF fault = "none" THEN [self EXCEPT !.logged_in = FALSE] ELSE self

\* the methods that fetch data, and those that take an account number or a
\* span
DataMethods ==
    {"get_portfolio_value", "get_holdings", "get_dividends",
     "get_historical_portfolio_value", "get_all_accounts",
     "get_all_account_profiles", "get_portfolio_value_for_account",
     "get_holdings_for_account", "calculate_account_performance",
     "get_historical_portfolio_for_account"}
AccountMethods ==
    {"get_portfolio_value_for_account", "get_holdings_for_account",
     "calculate_account_performance", "get_historical_portfolio_for_account"}
SpanMethods ==
    {"get_historical_portfolio_value", "get_historical_portfolio_for_account"}

\* what a data method does with an exception of its API calls: raises it
\* again, or returns an empty list, or returns None
OnApiFailure(method) ==
    IF method \in {"get_portfolio_value", "get_holdings", "get_dividends",
                   "get_portfolio_value_for_account"}
    THEN Raised("Exception")
    ELSE IF method \in {"get_all_accounts", "get_all_account_profiles",
                        "get_holdings_for_account"}
    THEN Some(<< >>)
    ELSE None

\* a data method called on the client: the check of the session, then the
\* API calls inside the try
CallDataMethod(self, method, api) ==
    CASE method = "get_portfolio_value_for_account" ->
             get_portfolio_value_for_account(self.logged_in,
                 IF api = "ok" THEN Some([equity |-> 10000, cash |-> 50])
                 ELSE Raised("Exception"))
      [] method = "get_historical_portfolio_for_account" ->
             get_historical_portfolio_for_account(self.logged_in, << >>,
                 IF api = "ok" THEN "none" ELSE "error")
      [] OTHER ->
             IF _ensure_logged_in(self.logged_in) # None
             THEN _ensure_logged_in(self.logged_in)
             ELSE IF api = "ok" THEN Some("data")
             ELSE OnApiFailure(method)

NewClient ==
    /\ client = None
    /\ handler = Idle
    /\ last = Returned
    /\ client' = RobinhoodClient
    /\ UNCHANGED <<s3, saved, last, today, run, tracker, handler>>

Login(result, store_session) ==
    /\ client # None
    /\ handler = Idle
    /\ last = Returned
    /\ client' = login(client, result).self
    /\ last' = [op |-> "login", before |-> client.logged_in,
                result |-> result, store_session |-> store_session,
                ret |-> login(client, result).ret]
    /\ UNCHANGED <<s3, saved, today, run, tracker, handler>>

Logout(fault) ==
    /\ client # None
    /\ handler = Idle
    /\ last = Returned
    /\ client' = logout(client, fault)
    /\ last' = [op |-> "logout", before |-> client.logged_in,
                fault |-> fault]
    /\ UNCHANGED <<s3, saved, today, run, tracker, handler>>

\* args: the account number and the span the method takes, if any
DataCall(method, args, api) ==
    /\ client # None
    /\ handler = Idle
    /\ last = Returned
    /\ last' = [op |-> method, before |-> client.logged_in, args |-> args,
                api |-> api, ret |-> CallDataMethod(client, method, api)]
    /\ UNCHANGED <<s3, saved, today, run, tracker, client, handler>>

\* the arguments a data method can be called with
ArgsOf(method) ==
    { [account |-> a, span |-> sp] :
        a \in IF method \in AccountMethods THEN Accounts ELSE {<< >>},
        sp \in IF method \in SpanMethods THEN AnySpans ELSE {""} }

NextClient ==
    \/ NewClient
    \/ \E result \in LoginResults, store_session \in BOOLEAN :
          Login(result, store_session)
    \/ \E fault \in {"none", "error"} : Logout(fault)
    \/ \E method \in DataMethods, api \in {"ok", "error"} :
          \E args \in ArgsOf(method) : DataCall(method, args, api)
    \/ Return

SpecClient == Init /\ [][NextClient]_vars

----------------------------------------------------------------------------
(* PortfolioAnalyzer.analyze: every account of the profiles, then the      *)
(* report.  The holdings, the dividends and the report date are left out   *)
(* of the report; the S3 calls of the analysis answer.                     *)

\* the faults of the snapshot reads and of the holdings estimate during
\* analyze: none
NoReadFaults == <<"none", "none">>

\* _analyze_account as one call: the AccountReport or the exception, the
\* bucket afterwards, and whether a snapshot was written
AnalyzeAccount(bucket, svc, self, a, pv, now) ==
    LET portfolio_value == get_portfolio_value_for_account(self.logged_in, pv)
        r == save_snapshot(bucket, a, portfolio_value.val.equity,
                           portfolio_value.val.cash,
                           [date |-> now, time |-> "09:00"], "none")
        after == IF svc THEN r.s3 ELSE bucket
        monthly_change ==
            _calculate_period_change_for_account(after, svc, self.logged_in,
                a, "month", now, NoReadFaults, << >>, "none")
        ytd_change ==
            _calculate_period_change_for_account(after, svc, self.logged_in,
                a, "year", now, NoReadFaults, << >>, "none")
    IN  IF IsRaise(portfolio_value)
        THEN [ret |-> portfolio_value, s3 |-> bucket, wrote |-> FALSE]
        ELSE [ret |-> Some(AccountReport(AccountType(a), a,
                              portfolio_value.val.equity,
                              portfolio_value.val.cash,
                              monthly_change.ret, ytd_change.ret)),
              s3 |-> after, wrote |-> svc]

\* the loop's state after one account: its report kept as the IRA or the
\* individual account, or the exception that ends the loop
AfterAccount(st, a, r) ==
    IF IsRaise(r.ret) THEN [st EXCEPT !.raised = r.ret]
    ELSE IF AccountType(a) = "roth_ira"
    THEN [st EXCEPT !.ira_account = r.ret, !.s3 = r.s3,
                    !.writes = @ + (IF r.wrote THEN 1 ELSE 0)]
    ELSE [st EXCEPT !.individual_account = r.ret, !.s3 = r.s3,
                    !.writes = @ + (IF r.wrote THEN 1 ELSE 0)]

\* the loop over the profiles: the two reports so far, the bucket, the
\* number of snapshots written and the exception that ended the loop
RECURSIVE AnalyzeProfiles(_, _, _, _, _, _)
AnalyzeProfiles(st, svc, self, profiles, values, now) ==
    IF profiles = << >> \/ st.raised # None THEN st
    ELSE AnalyzeProfiles(
             AfterAccount(st, Head(profiles),
                 AnalyzeAccount(st.s3, svc, self, Head(profiles),
                                values[Head(profiles)], now)),
             svc, self, Tail(profiles), values, now)

PortfolioReport(total_value, cash_balance, monthly, ytd, individual_account, ira_account, combined_retirement_value) ==
    [total_value |-> total_value,
     cash_balance |-> cash_balance,
     monthly_change_dollars |-> monthly.dollars,
     monthly_change_percent |-> Round2(monthly.percent),
     ytd_change_dollars |-> ytd.dollars,
     ytd_change_percent |-> Round2(ytd.percent),
     individual_account |-> individual_account,
     ira_account |-> ira_account,
     combined_retirement_value |-> combined_retirement_value]

\* the total of an account report, 0.0 for an absent one
ValueOf(account) == IF account # None THEN account.val.total_value ELSE 0

\* a combined value that is the individual account's alone
CombinedIndividualOnly(individual_account, ira_account) ==
    ValueOf(individual_account)

\* line 125: individual_value + ira_value
CombinedRetirementValue(individual_account, ira_account) ==
    ValueOf(individual_account) + ValueOf(ira_account)

\* analyze after the loop over the profiles: the dividends, then the report
\* from the individual account or, without one, from the legacy calls
AnalyzeAfterProfiles(st, in) ==
    LET individual == st.individual_account
        combined_retirement_value ==
            CombinedRetirementValue(st.individual_account, st.ira_account)
        zero == [dollars |-> 0, percent |-> Zero]
    IN  IF st.raised # None THEN st.raised
        ELSE IF in.dividends = "error" THEN Raised("Exception")
        ELSE IF individual # None
        THEN Some(PortfolioReport(individual.val.total_value,
                 individual.val.cash_balance,
                 [dollars |-> individual.val.monthly_change_dollars,
                  percent |-> individual.val.monthly_change_percent],
                 [dollars |-> individual.val.ytd_change_dollars,
                  percent |-> individual.val.ytd_change_percent],
                 individual, st.ira_account, combined_retirement_value))
        ELSE IF IsRaise(in.legacy) THEN in.legacy
        ELSE Some(PortfolioReport(in.legacy.val.equity,
                 in.legacy.val.cash, zero, zero, individual,
                 st.ira_account, combined_retirement_value))

\* the result of analyze: the report or the exception, the bucket
\* afterwards and the number of snapshots written
AnalyzeResult(st, in) ==
    [ret |-> AnalyzeAfterProfiles(st, in), s3 |-> st.s3, writes |-> st.writes]

\* analyze: the PortfolioReport or the exception, the bucket afterwards and
\* the number of snapshots written.  in: the accounts of the profiles (none
\* when get_all_account_profiles failed), what the brokerage gives for each
\* account, for the dividends and for the legacy portfolio value, whose
\* history is taken as unavailable
analyze(bucket, svc, self, in, now) ==
    IF _ensure_logged_in(self.logged_in) # None
    THEN [ret |-> _ensure_logged_in(self.logged_in), s3 |-> bucket,
          writes |-> 0]
    ELSE AnalyzeResult(
             AnalyzeProfiles([individual_account |-> None,
                              ira_account |-> None, s3 |-> bucket,
                              writes |-> 0, raised |-> None],
                             svc, self, in.profiles, in.values, now), in)

----------------------------------------------------------------------------
(* lambda_handler, step by step.  handler.events lists the calls of the    *)
(* invocation in order, each with what it gave: "ok", "false" or "raise".  *)

\* SESSION_BUCKET and ALERT_TOPIC_ARN: set, or empty
Environments == [SESSION_BUCKET : BOOLEAN, ALERT_TOPIC_ARN : BOOLEAN]

\* a value of the secret that is no number
NotANumber == [kind |-> "text"]

\* the secret: whether it holds the Robinhood credentials and the sender's
\* address, and its retirement_target, birth_year and current_age (None
\* for a key that is not there)
FullSecret ==
    [robinhood |-> TRUE, sender_email |-> TRUE, retirement_target |-> None,
     birth_year |-> Some(1958), current_age |-> None]

SecretValues ==
    { FullSecret,
      [FullSecret EXCEPT !.retirement_target = Some(Frac(64, 1)),
                         !.birth_year = None, !.current_age = Some(66)],
      [FullSecret EXCEPT !.robinhood = FALSE],
      [FullSecret EXCEPT !.sender_email = FALSE],
      [FullSecret EXCEPT !.retirement_target = Some(Zero)],
      [FullSecret EXCEPT !.retirement_target = NotANumber] }

\* what the brokerage gives for an account during analyze
HandlerValues ==
    { Some([equity |-> 0, cash |-> 50]),
      Some([equity |-> 10000, cash |-> 50]),
      Raised("Exception") }

\* the inputs of one analyze
AnalysisInputs ==
    [profiles : {<< >>, <<<<"1">>>>, <<<<"1", "2">>>>,
                 <<<<"1">>, <<"1", "2">>>>},
     values : [Accounts -> HandlerValues],
     dividends : {"ok", "error"},
     legacy : {Some([equity |-> 10000, cash |-> 50]), Raised("Exception")}]

Ev(call, ret) == [call |-> call, ret |-> ret]

\* lines 169-177: the RetirementConfig built from the secret, or the
\* exception of a conversion
RetirementConfigFromSecrets(secrets, now) ==
    LET birth_year == secrets.birth_year
        current_age ==
            IF birth_year # None THEN 0
            ELSE IF secrets.current_age = None THEN 30
            ELSE secrets.current_age.val
        target_amount ==
            IF secrets.retirement_target = None THEN Frac(2000000, 1)
            ELSE secrets.retirement_target.val
    IN  IF secrets.retirement_target = NotANumber THEN Raised("ValueError")
        ELSE Some(RetirementConfig(target_amount, 65, current_age, Zero,
                                   Frac(7, 100), birth_year, now))

\* line 181, with the total value in every case
RetirementValueTotalOnly(portfolio_report) == portfolio_report.total_value

\* line 181: combined_retirement_value or total_value
RetirementValue(portfolio_report) ==
    IF portfolio_report.combined_retirement_value # 0
    THEN portfolio_report.combined_retirement_value
    ELSE portfolio_report.total_value

\* the handler leaves its try block with an exception: the except clause
\* builds the response
Fail(events) ==
    [handler EXCEPT !.pc = "finally", !.events = events,
                    !.response = Some([statusCode |-> 500])]

\* the invocation starts: rh_client = None
Invoke(env) ==
    /\ handler = Idle
    /\ run = Idle
    /\ last = Returned
    /\ client' = None
    /\ handler' = [pc |-> "secrets", env |-> env, events |-> << >>,
                   secrets |-> None, report |-> None,
                   retirement_value |-> None, progress |-> None,
                   response |-> None]
    /\ UNCHANGED <<s3, saved, last, today, run, tracker>>

\* step 1: get_secrets()
GetSecrets(outcome) ==
    /\ handler.pc = "secrets"
    /\ handler' =
          IF IsRaise(outcome)
          THEN Fail(<<Ev("get_secrets", "raise")>>)
          ELSE [handler EXCEPT
                   !.pc = IF handler.env.SESSION_BUCKET THEN "download"
                          ELSE "client",
                   !.events = <<Ev("get_secrets", "ok")>>,
                   !.secrets = Some(outcome)]
    /\ UNCHANGED <<s3, saved, last, today, run, tracker, client>>

\* step 2: download_session_from_s3, which returns a boolean
DownloadSession(session_downloaded) ==
    /\ handler.pc = "download"
    /\ handler' =
          [handler EXCEPT
              !.pc = "client",
              !.events = Append(@, Ev("download_session_from_s3",
                            IF session_downloaded THEN "ok" ELSE "false"))]
    /\ UNCHANGED <<s3, saved, last, today, run, tracker, client>>

\* step 3: RobinhoodClient(...), a KeyError if the credentials are missing
ConstructClient ==
    /\ handler.pc = "client"
    /\ IF handler.secrets.val.robinhood
       THEN /\ client' = RobinhoodClient
            /\ handler' = [handler EXCEPT
                               !.pc = "login",
                               !.events = Append(@, Ev("RobinhoodClient",
                                                       "ok"))]
       ELSE /\ client' = client
            /\ handler' = Fail(Append(handler.events,
                                      Ev("RobinhoodClient", "raise")))
    /\ UNCHANGED <<s3, saved, last, today, run, tracker>>

\* send_approval_alert(): publishes only if the topic is configured, and
\* keeps a failure of the publish to itself
send_approval_alert(events, env, sns) ==
    IF env.ALERT_TOPIC_ARN
    THEN events \o <<Ev("send_approval_alert", "ok"), Ev("sns.publish", sns)>>
    ELSE Append(events, Ev("send_approval_alert", "ok"))

\* the login with the cached session; when it fails the alert is sent
CachedLogin(result, sns) ==
    LET r == login(client, result)
        events == Append(handler.events,
                         Ev("login", IF r.ret THEN "ok" ELSE "false"))
    IN  /\ handler.pc = "login"
        /\ client' = r.self
        /\ handler' =
              IF r.ret
              THEN [handler EXCEPT !.pc = "analyze", !.events = events]
              ELSE [handler EXCEPT
                       !.pc = "fresh_login",
                       !.events = send_approval_alert(events, handler.env,
                                                      sns)]
        /\ UNCHANGED <<s3, saved, last, today, run, tracker>>

\* a fresh login that uploads the session whether or not the bucket is
\* configured
FreshLoginAlwaysUploads(result, uploaded) ==
    LET r == login(client, result)
        events == Append(handler.events,
                         Ev("login", IF r.ret THEN "ok" ELSE "false"))
    IN  /\ handler.pc = "fresh_login"
        /\ client' = r.self
        /\ handler' =
              IF ~r.ret THEN Fail(events)
              ELSE [handler EXCEPT
                       !.pc = "analyze",
                       !.events = Append(events, Ev("upload_session_to_s3",
                                    IF uploaded THEN "ok" ELSE "false"))]
        /\ UNCHANGED <<s3, saved, last, today, run, tracker>>

\* the fresh login; the session is uploaded if it succeeds and the bucket
\* is configured, and the handler raises if it fails
FreshLogin(result, uploaded) ==
    LET r == login(client, result)
        events == Append(handler.events,
                         Ev("login", IF r.ret THEN "ok" ELSE "false"))
    IN  /\ handler.pc = "fresh_login"
        /\ client' = r.self
        /\ handler' =
              IF ~r.ret THEN Fail(events)
              ELSE [handler EXCEPT
                       !.pc = "analyze",
                       !.events =
                           IF handler.env.SESSION_BUCKET
                           THEN Append(events, Ev("upload_session_to_s3",
                                    IF uploaded THEN "ok" ELSE "false"))
                           ELSE events]
        /\ UNCHANGED <<s3, saved, last, today, run, tracker>>

\* the handler after analyze returned r
AfterAnalyze(r) ==
    LET events == handler.events
                     \o [i \in 1..r.writes |-> Ev("save_snapshot", "ok")]
                     \o <<Ev("analyze", IF IsRaise(r.ret) THEN "raise"
                                        ELSE "ok")>>
    IN  IF IsRaise(r.ret) THEN Fail(events)
        ELSE [handler EXCEPT !.pc = "retire", !.events = events,
                             !.report = r.ret]

\* what is stored under each key of a bucket
SavedOf(bucket) ==
    [k \in DOMAIN bucket |->
        [equity |-> bucket[k].equity, cash |-> bucket[k].cash]]

\* step 4: analyzer.analyze(), with a snapshot service if the bucket is
\* configured; the snapshots are written while it runs
Analyze(in) ==
    /\ handler.pc = "analyze"
    /\ \E r \in {analyze(s3, handler.env.SESSION_BUCKET, client, in, today)} :
          /\ s3' = r.s3
          /\ saved' = SavedOf(r.s3)
          /\ handler' = AfterAnalyze(r)
    /\ UNCHANGED <<last, today, run, tracker, client>>

\* step 5: the config from the secret, the tracker, and the progress of
\* the retirement value
Retire ==
    LET config == RetirementConfigFromSecrets(handler.secrets.val, today)
        retirement_value == RetirementValue(handler.report.val)
        progress == calculate_progress(config.val, Frac(retirement_value, 1))
    IN  /\ handler.pc = "retire"
        /\ IF IsRaise(config)
           THEN /\ tracker' = tracker
                /\ handler' = Fail(Append(handler.events,
                                          Ev("RetirementConfig", "raise")))
           ELSE /\ tracker' = Some(config.val)
                /\ handler' =
                      IF IsRaise(progress)
                      THEN Fail(Append(handler.events,
                                       Ev("calculate_progress", "raise")))
                      ELSE [handler EXCEPT
                               !.pc = "email",
                               !.events = Append(@, Ev("calculate_progress",
                                                       "ok")),
                               !.retirement_value = Some(retirement_value),
                               !.progress = progress]
        /\ UNCHANGED <<s3, saved, last, today, run, client>>

\* step 6 without the check of what send_newsletter returned
SendEmailUnchecked(outcome) ==
    /\ handler.pc = "email"
    /\ handler' =
          IF ~handler.secrets.val.sender_email
          THEN Fail(Append(handler.events, Ev("EmailService", "raise")))
          ELSE IF outcome # "raise"
          THEN [handler EXCEPT
                   !.pc = "finally",
                   !.events = Append(@, Ev("send_newsletter", outcome)),
                   !.response = Some([statusCode |-> 200])]
          ELSE Fail(Append(handler.events, Ev("send_newsletter", outcome)))
    /\ UNCHANGED <<s3, saved, last, today, run, tracker, client>>

\* step 6: EmailService(...), a KeyError if the sender is missing, then
\* send_newsletter; anything but True makes the handler raise
SendEmail(outcome) ==
    /\ handler.pc = "email"
    /\ handler' =
          IF ~handler.secrets.val.sender_email
          THEN Fail(Append(handler.events, Ev("EmailService", "raise")))
          ELSE IF outcome = "ok"
          THEN [handler EXCEPT
                   !.pc = "finally",
                   !.events = Append(@, Ev("send_newsletter", "ok")),
                   !.response = Some([statusCode |-> 200])]
          ELSE Fail(Append(handler.events, Ev("send_newsletter", outcome)))
    /\ UNCHANGED <<s3, saved, last, today, run, tracker, client>>

\* a finally clause that logs out only a client that is logged in
FinallyIfLoggedIn(fault) ==
    /\ handler.pc = "finally"
    /\ IF client # None /\ client.logged_in
       THEN /\ client' = logout(client, fault)
            /\ handler' = [handler EXCEPT
                               !.pc = "done",
                               !.events = Append(@, Ev("logout",
                                   IF fault = "none" THEN "ok" ELSE "raise"))]
       ELSE /\ client' = client
            /\ handler' = [handler EXCEPT !.pc = "done"]
    /\ UNCHANGED <<s3, saved, last, today, run, tracker>>

\* the finally clause: logout() if the client was constructed; the response
\* built before it is returned
Finally(fault) ==
    /\ handler.pc = "finally"
    /\ IF client # None
       THEN /\ client' = logout(client, fault)
            /\ handler' = [handler EXCEPT
                               !.pc = "done",
                               !.events = Append(@, Ev("logout",
                                   IF fault = "none" THEN "ok" ELSE "raise"))]
       ELSE /\ client' = client
            /\ handler' = [handler EXCEPT !.pc = "done"]
    /\ UNCHANGED <<s3, saved, last, today, run, tracker>>

NextHandler ==
    \/ \E env \in Environments : Invoke(env)
    \/ \E outcome \in SecretValues \cup {Raised("ClientError")} :
          GetSecrets(outcome)
    \/ \E session_downloaded \in BOOLEAN : DownloadSession(session_downloaded)
    \/ ConstructClient
    \/ \E result \in LoginResults, sns \in {"ok", "raise"} :
          CachedLogin(result, sns)
    \/ \E result \in LoginResults, uploaded \in BOOLEAN :
          FreshLogin(result, uploaded)
    \/ \E in \in AnalysisInputs : Analyze(in)
    \/ Retire
    \/ \E outcome \in {"ok", "false", "raise"} : SendEmail(outcome)
    \/ \E fault \in {"none", "error"} : Finally(fault)

SpecHandler == Init /\ [][NextHandler]_vars

----------------------------------------------------------------------------
(* Claims about the snapshot service *)

\* the call that `last` shows
IsCalc == last.op = "calculate_period_change"
CalcEnd == IF last.end = None THEN today ELSE last.end.val
CalcStartKey == SnapshotKey(last.account, last.start)
CalcEndKey == SnapshotKey(last.account, CalcEnd)
CalcBothStored == CalcStartKey \in DOMAIN s3 /\ CalcEndKey \in DOMAIN s3
CalcNoFault == last.fault_start = "none" /\ last.fault_end = "none"

\* C1: calculate_period_change returns nothing when the snapshot at
\* start_date or at end_date is not in the store, and returns a result when
\* both are stored (and both reads answer), whatever the equities are.
C1_NothingIffAnEndpointIsAbsent ==
    IsCalc =>
        /\ ~CalcBothStored => last.ret = None
        /\ CalcBothStored /\ CalcNoFault => last.ret.kind = "some"

C1_Witness ==
    /\ IsCalc
    /\ CalcBothStored
    /\ last.ret.kind = "some"
    /\ s3[CalcStartKey].equity < 0
    /\ s3[CalcEndKey].equity = 0

\* the bucket with every cash field set to c
WithCash(bucket, c) == [k \in DOMAIN bucket |-> [bucket[k] EXCEPT !.cash = c]]

\* C2: with both snapshots stored, change_dollars is end.equity minus
\* start.equity, start_equity and end_equity are the stored equities, and
\* for start.equity > 0 change_percent is change_dollars / start.equity * 100
\* (10000 then 10500: 500 dollars, 5 percent); the cash fields change nothing.
C2_ChangeIsEquityDifference ==
    (IsCalc /\ last.ret.kind = "some") =>
        LET r == last.ret.val
            s == s3[CalcStartKey].equity
            e == s3[CalcEndKey].equity
        IN  /\ r.change_dollars = e - s
            /\ r.start_equity = s
            /\ r.end_equity = e
            /\ s > 0 =>
                  /\ r.change_percent.den > 0
                  /\ r.change_percent.num * s
                        = r.change_dollars * 100 * r.change_percent.den
            /\ (s = 10000 /\ e = 10500) =>
                  /\ r.change_dollars = 500
                  /\ r.change_percent = [num |-> 5, den |-> 1]
            /\ \A c \in {0, 50} :
                  calculate_period_change(WithCash(s3, c), last.account,
                      last.start, last.end, today, last.fault_start,
                      last.fault_end) = last.ret

C2_Witness ==
    /\ IsCalc
    /\ last.ret.kind = "some"
    /\ last.ret.val.change_dollars = 500
    /\ last.ret.val.change_percent = [num |-> 5, den |-> 1]
    /\ s3[CalcStartKey].cash # s3[CalcEndKey].cash

\* C3: when the start snapshot's equity is 0 or less, the call returns a
\* result with change_percent 0 and change_dollars = end.equity -
\* start.equity; it neither raises nor returns nothing.
C3_ZeroStartGivesZeroPercent ==
    (IsCalc /\ CalcBothStored /\ CalcNoFault /\ s3[CalcStartKey].equity <= 0) =>
        /\ last.ret.kind = "some"
        /\ last.ret.val.change_percent = Zero
        /\ last.ret.val.change_dollars
              = s3[CalcEndKey].equity - s3[CalcStartKey].equity

C3_Witness ==
    /\ IsCalc
    /\ last.ret.kind = "some"
    /\ s3[CalcStartKey].equity = 0
    /\ last.ret.val.change_dollars = 10500
    /\ last.ret.val.change_percent = Zero

\* the first ten characters of an ISO timestamp: its date
DatePart(timestamp) == SubSeq(timestamp, 1, 10)

\* C4: get_snapshot(account, date) returns the equity and cash of the most
\* recent successful save for that account and calendar date, whatever the
\* times of day of the saves, and at most one snapshot is stored per
\* account and date.
C4_LatestSaveIsRetrieved ==
    /\ \A a \in Accounts, d \in Dates :
          /\ LET r == get_snapshot(s3, a, d, "none")
                 k == SnapshotKey(a, d)
             IN  IF k \in DOMAIN saved
                 THEN /\ r.kind = "some"
                      /\ r.val.equity = saved[k].equity
                      /\ r.val.cash = saved[k].cash
                 ELSE r = None
          /\ Cardinality({k \in DOMAIN s3 :
                            /\ s3[k].account_number = a
                            /\ DatePart(s3[k].timestamp) = strftime(d)}) <= 1
    /\ (last.op = "get_snapshot" /\ last.fault = "none") =>
          LET k == SnapshotKey(last.account, last.date)
          IN  IF k \in DOMAIN saved
              THEN /\ last.ret.kind = "some"
                   /\ last.ret.val.equity = saved[k].equity
                   /\ last.ret.val.cash = saved[k].cash
              ELSE last.ret = None
    /\ (last.op = "save_snapshot" /\ last.ret) =>
          saved[SnapshotKey(last.account, last.date)] = last.quote

\* a second save for the same account and day, at another time of day and
\* with other values, has replaced the first
C4_Witness ==
    /\ last.op = "save_snapshot"
    /\ last.ret
    /\ last.before.kind = "some"
    /\ last.before.val.timestamp
          # isoformat([date |-> last.date, time |-> last.time])
    /\ last.before.val.equity # last.quote.equity
    /\ last.before.val.cash # last.quote.cash
    /\ get_snapshot(s3, last.account, last.date, "none").val.equity
          = last.quote.equity

\* the dates on which the account has a stored snapshot
StoredDates(a) == {d \in Dates : SnapshotKey(a, d) \in DOMAIN s3}

\* C6: get_latest_snapshot(account) returns the snapshot of that account
\* with the greatest date among all its stored snapshots, however many
\* there are, and nothing when the account has none.
C6_LatestIsGreatestDate ==
    (last.op = "get_latest_snapshot" /\ last.fault = "none") =>
        IF StoredDates(last.account) = {}
        THEN last.ret = None
        ELSE LET d == CHOOSE d \in StoredDates(last.account) :
                         \A e \in StoredDates(last.account) :
                             e = d \/ DateLess(e, d)
             IN  last.ret = Some(from_dict(s3[SnapshotKey(last.account, d)]))

\* C7: no call of the service removes a key from the store.
C7_KeysNeverRemoved == [][DOMAIN s3 \subseteq DOMAIN s3']_vars

C7_Witness ==
    /\ last.op = "save_snapshot"
    /\ last.ret
    /\ last.before.kind = "some"
    /\ Cardinality(StoredDates(last.account)) >= 2

\* C8: a read that fails (missing key, another client error, a body that is
\* no snapshot) makes get_snapshot and get_latest_snapshot return nothing,
\* and with it calculate_period_change; none of them raises.
C8_ReadFailureIsNothing ==
    /\ last.op = "get_snapshot" =>
          /\ last.ret.kind # "raise"
          /\ (last.fault # "none"
                \/ SnapshotKey(last.account, last.date) \notin DOMAIN s3)
                => last.ret = None
    /\ last.op = "get_latest_snapshot" =>
          /\ last.ret.kind # "raise"
          /\ last.fault # "none" => last.ret = None
    /\ IsCalc =>
          /\ last.ret.kind # "raise"
          /\ (~CalcNoFault \/ ~CalcBothStored) => last.ret = None

C8_Witness ==
    /\ IsCalc
    /\ CalcBothStored
    /\ last.fault_end = "bad_body"
    /\ last.ret = None

----------------------------------------------------------------------------
(* Claims about the analysis of one account *)

\* the period changes the analysis in progress has computed so far
HasMonthly == run.pc \in {"year", "done"} /\ "monthly" \in DOMAIN run
HasYtd == run.pc = "done" /\ "ytd" \in DOMAIN run

\* C5: get_snapshot looks up the exact date: when the account has no
\* snapshot on the requested date it returns nothing, whatever other dates
\* are stored, and does not raise; so a month's (year's) change comes from
\* snapshots only if one was saved on the first day of that month (year).
C5_ExactDateLookup ==
    /\ (last.op = "get_snapshot"
          /\ SnapshotKey(last.account, last.date) \notin DOMAIN saved)
          => last.ret = None
    /\ (HasMonthly /\ run.monthly.via = "snapshots") =>
          SnapshotKey(run.account, FirstOfMonth(run.monthly_in.now))
              \in DOMAIN saved
    /\ (HasYtd /\ run.ytd.via = "snapshots") =>
          SnapshotKey(run.account, FirstOfYear(run.ytd_in.now))
              \in DOMAIN saved

\* the account has an earlier and a later snapshot, none on the date asked
C5_Witness ==
    /\ last.op = "get_snapshot"
    /\ last.fault = "none"
    /\ last.ret = None
    /\ \E d \in StoredDates(last.account) : DateLess(d, last.date)
    /\ \E d \in StoredDates(last.account) : DateLess(last.date, d)

\* C9: a write that fails makes save_snapshot return False, leaves the
\* object stored under the key (if any) as it was, and the analysis that
\* issued the save goes on to build its AccountReport.
C9_FailedSaveIsNotFatal ==
    (run.pc \in {"month", "year", "done"} /\ "save" \in DOMAIN run
        /\ run.svc /\ run.fault # "none") =>
        /\ run.save = Some(FALSE)
        /\ IF run.before = None THEN run.key \notin DOMAIN s3
           ELSE run.key \in DOMAIN s3 /\ s3[run.key] = run.before.val
        /\ run.pc = "done" =>
              /\ run.report.kind = "some"
              /\ run.report.val.account_number = run.account
              /\ run.report.val.total_value = run.value.equity

C9_Witness ==
    /\ run.pc = "done"
    /\ "save" \in DOMAIN run
    /\ run.save = Some(FALSE)
    /\ run.before.kind = "some"
    /\ run.before.val.equity # run.value.equity
    /\ run.report.kind = "some"

\* the fallback chain as the claim states it, for one computed change
ChainHolds(r, in, first_day) ==
    LET c == r.consulted
        n == Len(c)
    IN  /\ n >= 1
        /\ c[1].tier = IF run.svc THEN "snapshots" ELSE "holdings"
        /\ n = 2 => (c[1].tier = "snapshots" /\ c[2].tier = "holdings")
        /\ n <= 2
        /\ \A i \in 1..(n - 1) : c[i].result = None
        /\ IF c[n].result # None
           THEN /\ r.via = c[n].tier
                /\ r.ret.dollars =
                      (IF r.via = "snapshots" THEN c[n].result.val.dollars
                       ELSE c[n].result.val.change_dollars)
                /\ r.ret.percent =
                      (IF r.via = "snapshots" THEN c[n].result.val.percent
                       ELSE c[n].result.val.change_percent)
           ELSE /\ r.via = "zero"
                /\ r.ret = [dollars |-> 0, percent |-> Zero]
                /\ c[n].tier = "holdings"
        /\ (/\ run.svc
            /\ in.f = <<"none", "none">>
            /\ SnapshotKey(run.account, first_day) \in DOMAIN s3
            /\ SnapshotKey(run.account, in.now) \in DOMAIN s3)
              => /\ r.via = "snapshots"
                 /\ r.ret.dollars =
                       s3[SnapshotKey(run.account, in.now)].equity
                           - s3[SnapshotKey(run.account, first_day)].equity

\* C10: the period change comes from the first of three tiers that yields
\* one: the snapshots whenever they give a change; the holdings estimate
\* only when the snapshot tier gave nothing or no snapshot service is
\* configured; the zero change only when both gave nothing.
C10_FirstTierWins ==
    /\ HasMonthly =>
          ChainHolds(run.monthly, run.monthly_in,
                     FirstOfMonth(run.monthly_in.now))
    /\ HasYtd =>
          ChainHolds(run.ytd, run.ytd_in, FirstOfYear(run.ytd_in.now))

\* one analysis in which the month's change came from the snapshots and the
\* year's from neither tier
C10_Witness ==
    /\ HasYtd
    /\ run.svc
    /\ run.monthly.via = "snapshots"
    /\ run.monthly.ret.dollars # 0
    /\ run.ytd.via = "zero"
    /\ Len(run.ytd.consulted) = 2

\* a record with a number under 'dollars' and a number under 'percent'
ChangeIsNumeric(change) ==
    /\ DOMAIN change = {"dollars", "percent"}
    /\ change.dollars \in Int
    /\ change.percent.num \in Int
    /\ change.percent.den \in Nat \ {0}

\* C11: the fallback chain never fails the report: whatever the snapshot
\* reads and the brokerage calls of the holdings estimate do,
\* _calculate_period_change_for_account returns a record with numeric
\* 'dollars' and 'percent', and once the analysis of an account has reached
\* the chain it ends with the account's report, not with an exception.
C11_ChainNeverAborts ==
    /\ HasMonthly => ChangeIsNumeric(run.monthly.ret)
    /\ HasYtd => ChangeIsNumeric(run.ytd.ret)
    /\ (run.pc = "done" /\ "monthly" \in DOMAIN run) =>
           run.report.kind = "some"

\* an analysis with the snapshot service whose month's change found the
\* body of a stored snapshot unreadable and the holdings estimate failing,
\* and which ended with the report
C11_Witness ==
    /\ HasYtd
    /\ run.svc
    /\ run.key \in DOMAIN s3
    /\ run.monthly_in.f = <<"none", "bad_body">>
    /\ run.monthly.via = "zero"
    /\ Len(run.monthly.consulted) = 2
    /\ run.monthly.consulted[2].result = None
    /\ run.report.kind = "some"

----------------------------------------------------------------------------
(* Claims about the retirement tracker.  Comparisons are made on the       *)
(* amounts at full precision, as calculate_progress makes them; the fields *)
(* of the returned RetirementProgress are those amounts rounded.           *)

\* the call of calculate_progress that `last` shows, its arguments, and the
\* RetirementProgress it returned
IsProgressCall == last.op = "calculate_progress"
ProgressReturned == IsProgressCall /\ last.ret.kind = "some"
Progress == last.ret.val
Target == last.config.target_amount
Contribution == last.config.monthly_contribution
AnnualReturn == last.config.assumed_annual_return
CurrentValue == last.current_portfolio_value
Years == YearsRemaining(last.config)

\* C12: calculate_progress fails with an InvalidConfig error whenever the
\* configured target_amount is <= 0, zero or negative, and returns no
\* RetirementProgress.
C12_NonPositiveTargetIsInvalidConfig ==
    (IsProgressCall /\ Leq(Target, Zero)) =>
        last.ret = Raised("InvalidConfig")

\* C13: with no years remaining (target_age <= current_age), whatever the
\* current value, the contribution and the rate, projected_value equals
\* current_value exactly and monthly_needed equals
\* max(0, target_amount - current_value).
C13_AtTargetAgeNothingGrows ==
    (ProgressReturned /\ Progress.years_remaining = 0) =>
        /\ Progress.projected_value = Progress.current_value
        /\ Progress.projected_value = Round(CurrentValue, 2)
        /\ Progress.monthly_needed =
               Round(Max(Zero, Sub(Target, CurrentValue)), 2)

\* a holder past the target age who contributes, at a nonzero rate, and
\* whose portfolio is short of the target
C13_Witness ==
    /\ ProgressReturned
    /\ last.config.current_age > last.config.target_age
    /\ Progress.years_remaining = 0
    /\ Lt(Zero, Contribution)
    /\ AnnualReturn # Zero
    /\ CurrentValue # Zero
    /\ Lt(Zero, Progress.monthly_needed)

\* C14: with an assumed_annual_return of 0 and a monthly_contribution > 0,
\* projected_value == current_value + monthly_contribution *
\* years_remaining * 12.
C14_ZeroRateIsLinear ==
    (ProgressReturned /\ AnnualReturn = Zero /\ Lt(Zero, Contribution)) =>
        Progress.projected_value =
            Round(Add(CurrentValue,
                      Mul(Contribution,
                          Frac(Progress.years_remaining * 12, 1))), 2)

\* two years of contributions at rate 0 on top of a portfolio
C14_Witness ==
    /\ ProgressReturned
    /\ AnnualReturn = Zero
    /\ Lt(Zero, Contribution)
    /\ Progress.years_remaining = 2
    /\ Lt(Zero, CurrentValue)
    /\ Progress.projected_value = Frac(304, 1)

\* the monthly rate r and the growth (1+r)^months of the call
MonthlyRate == Div(AnnualReturn, Frac(12, 1))
Growth == Pow(Add(One, MonthlyRate), Years * 12)

\* C15: with years remaining and a monthly rate r # 0, positive or
\* negative, projected_value = current_value * (1+r)^months +
\* monthly_contribution * (((1+r)^months - 1) / r); the linear form
\* monthly_contribution * months is used only when r == 0.
C15_AnnuityForEveryNonzeroRate ==
    (ProgressReturned /\ Lt(Zero, Target) /\ Years > 0
                      /\ MonthlyRate # Zero) =>
        Progress.projected_value =
            Round(Add(Mul(CurrentValue, Growth),
                      Mul(Contribution,
                          Div(Sub(Growth, One), MonthlyRate))), 2)

C17_OnTrackIffProjectionReachesTarget ==
    ProgressReturned =>
        LET projected_value ==
                _project_future_value(CurrentValue, Contribution, Years,
                                      AnnualReturn)
        IN  /\ Progress.on_track <=> Leq(Target, projected_value)
            /\ Progress.surplus_or_deficit =
                   Round(Sub(projected_value, Target), 2)
            /\ Progress.on_track =>
                   /\ Leq(Progress.target_amount, Progress.projected_value)
                   /\ Leq(Zero, Progress.surplus_or_deficit)
            /\ ~Progress.on_track =>
                   /\ Leq(Progress.projected_value, Progress.target_amount)
                   /\ Leq(Progress.surplus_or_deficit, Zero)

\* a projection that equals the target: on track with a surplus of 0
C17_Witness ==
    /\ ProgressReturned
    /\ Lt(Zero, Target)
    /\ Progress.projected_value = Progress.target_amount
    /\ Progress.surplus_or_deficit = Zero
    /\ Progress.on_track

C20_EdgeValuesDoNotRaise ==
    (IsProgressCall /\ Lt(Zero, Target)
         /\ (Contribution = Zero \/ AnnualReturn = Zero
                \/ Lt(CurrentValue, Zero))) =>
        /\ last.ret.kind = "some"
        /\ Progress.percent_complete =
               Round(Mul(Div(CurrentValue, Target), Frac(100, 1)), 1)
        /\ Lt(CurrentValue, Zero) =>
               /\ Lt(Mul(Div(CurrentValue, Target), Frac(100, 1)), Zero)
               /\ Leq(Progress.percent_complete, Zero)

\* a debit balance, no contribution and a rate of 0 at once, with years
\* remaining: the progress is returned with a negative percent_complete
C20_Witness ==
    /\ ProgressReturned
    /\ Lt(Zero, Target)
    /\ Years > 0
    /\ Contribution = Zero
    /\ AnnualReturn = Zero
    /\ Lt(CurrentValue, Zero)
    /\ Progress.percent_complete = Frac(-128, 10)

----------------------------------------------------------------------------
(* The worked example of the projection *)

\* the call of the example: target 2,000,000 at 65, aged 35, 1000 a month
\* at 7% a year, on a portfolio of 500,000
IsScenarioCall ==
    /\ last.op = "calculate_progress"
    /\ last.config =
           RetirementConfig(2000000, 65, 35, 1000, Frac(7, 100), None, today)
    /\ last.current_portfolio_value = 500000

\* C18, as stated: in the example years_remaining is 30, projected_value
\* is within 1% of 5,048,000, on_track is True and surplus_or_deficit > 0.
\* (Some value between the bounds is within 1% of 5,048,000.)
C18_ScenarioProjectsAsStated ==
    IsScenarioCall =>
        /\ last.ret.years_remaining = 30
        /\ 100 * last.ret.projected_value.upper >= 99 * 5048000
        /\ 100 * last.ret.projected_value.lower <= 101 * 5048000
        /\ last.ret.on_track = {TRUE}
        /\ last.ret.surplus_or_deficit.lower > 0

\* C18, amended: in the example years_remaining is 30, projected_value is
\* within 1% of 5,278,220, on_track is True and surplus_or_deficit > 0.
\* (Every value between the bounds is within 1% of 5,278,220.)
C18_ScenarioProjection ==
    IsScenarioCall =>
        /\ last.ret.years_remaining = 30
        /\ 100 * last.ret.projected_value.lower >= 99 * 5278220
        /\ 100 * last.ret.projected_value.upper <= 101 * 5278220
        /\ last.ret.on_track = {TRUE}
        /\ last.ret.surplus_or_deficit.lower > 0

\* the example has been computed: thirty years of monthly compounding
C18_Witness ==
    /\ IsScenarioCall
    /\ last.ret.years_remaining = 30
    /\ last.ret.projected_value.lower > 2000000
    /\ last.ret.projected_value.lower < last.ret.projected_value.upper
    /\ TRUE \in last.ret.on_track

----------------------------------------------------------------------------
(* Claims about the years remaining and the configured age *)

\* C21: years_remaining in every RetirementProgress equals
\* max(0, target_age - current_age): it is never negative, and it is 0
\* whenever current_age >= target_age.
C21_YearsRemainingIsFlooredDifference ==
    ProgressReturned =>
        LET target_age == last.config.target_age
            current_age == last.config.current_age
        IN  /\ Progress.years_remaining >= 0
            /\ current_age >= target_age => Progress.years_remaining = 0
            /\ current_age < target_age =>
                   Progress.years_remaining + current_age = target_age

\* a holder one year past the target age: the difference is -1, the years
\* remaining are 0
C21_Witness ==
    /\ ProgressReturned
    /\ last.config.target_age - last.config.current_age = -1
    /\ Progress.years_remaining = 0

\* C22: whenever a RetirementConfig is constructed with birth_year set, its
\* current_age equals the current year minus birth_year regardless of the
\* current_age passed; when birth_year is not set, current_age keeps the
\* value passed by the caller.
C22_BirthYearOverridesAge ==
    last.op = "RetirementConfig" =>
        /\ last.birth_year # None =>
               last.ret.current_age + last.birth_year.val = last.now.y
        /\ last.birth_year = None =>
               last.ret.current_age = last.current_age
        /\ last.ret.birth_year = last.birth_year

\* a config built in 2024 with birth year 1959 and an age of 63 passed:
\* the age is 65
C22_Witness ==
    /\ last.op = "RetirementConfig"
    /\ last.birth_year = Some(1959)
    /\ last.now.y = 2024
    /\ last.current_age = 63
    /\ last.ret.current_age = 65

----------------------------------------------------------------------------
(* Claims about the period boundaries *)

\* the snapshot tier called for a span, and the chain called for a span
IsTierCall == last.op = "_calculate_period_change_from_snapshots"
IsChainCall == last.op = "_calculate_period_change_for_account"

\* the change between the snapshots stored for two dates, as the tier
\* returns it: nothing unless both are stored and both reads answer
ChangeBetween(a, start, end, f) ==
    IF /\ SnapshotKey(a, start) \in DOMAIN s3
       /\ SnapshotKey(a, end) \in DOMAIN s3
       /\ f = <<"none", "none">>
    THEN LET se == s3[SnapshotKey(a, start)].equity
             ee == s3[SnapshotKey(a, end)].equity
         IN  Some([dollars |-> ee - se,
                   percent |-> IF se > 0 THEN Frac((ee - se) * 100, se)
                               ELSE Zero])
    ELSE None

\* C23: the snapshot tier uses start_date = first day of the current month
\* for span 'month' and January 1 of the current year for span 'year', both
\* with end_date = today; for any other span it consults no snapshot and
\* returns nothing, so the caller falls through to the next tier.
C23_PeriodBoundaries ==
    /\ IsTierCall =>
          last.ret =
              CASE last.span = "month" ->
                       ChangeBetween(last.account,
                           [y |-> last.now.y, m |-> last.now.m, d |-> 1],
                           last.now, last.f)
                [] last.span = "year" ->
                       ChangeBetween(last.account,
                           [y |-> last.now.y, m |-> 1, d |-> 1],
                           last.now, last.f)
                [] OTHER -> None
    /\ (IsChainCall /\ last.span \notin {"month", "year"}) =>
          /\ last.via \in {"holdings", "zero"}
          /\ Len(last.consulted) = 2
          /\ last.consulted[1] = [tier |-> "snapshots", result |-> None]
          /\ last.consulted[2].tier = "holdings"

\* the chain asked for a week in mid-February, with snapshots stored for
\* February 1 and for today and both reads answering: the change comes from
\* the holdings
C23_Witness ==
    /\ IsChainCall
    /\ last.span = "week"
    /\ last.now = [y |-> 2024, m |-> 2, d |-> 15]
    /\ last.f = <<"none", "none">>
    /\ ChangeBetween(last.account, FirstOfMonth(last.now), last.now, last.f)
           # None
    /\ last.via = "holdings"

----------------------------------------------------------------------------
(* Claims about the snapshot an analysis saves and then reads *)

\* the end-of-period snapshot that a period calculation of the analysis in
\* progress asked for: the account's snapshot of the date the calculation
\* took from the clock
EndSnapshot(in) == get_snapshot(s3, run.account, in.now, in.f[2])

\* the analysis saved its snapshot and the reads of the calculation answered
SavedAndRead(in) ==
    /\ run.svc
    /\ run.save = Some(TRUE)
    /\ in.f = <<"none", "none">>

\* C24: in an analysis with a snapshot service, today's snapshot is saved
\* before either period change is computed, so whenever the save succeeds
\* the end-of-period snapshot read in the same run holds the equity just
\* fetched; a run on the first day of a month reads the same snapshot for
\* start and end and reports a snapshot-based monthly change of exactly
\* 0 dollars and 0 percent.
C24_SavedSnapshotIsEndOfPeriod ==
    /\ (HasMonthly /\ SavedAndRead(run.monthly_in)) =>
          /\ EndSnapshot(run.monthly_in).kind = "some"
          /\ EndSnapshot(run.monthly_in).val.equity = run.value.equity
          /\ run.monthly_in.now.d = 1 =>
                 /\ run.monthly.via = "snapshots"
                 /\ run.monthly.ret = [dollars |-> 0, percent |-> Zero]
    /\ (HasYtd /\ SavedAndRead(run.ytd_in)) =>
          /\ EndSnapshot(run.ytd_in).kind = "some"
          /\ EndSnapshot(run.ytd_in).val.equity = run.value.equity

----------------------------------------------------------------------------
(* Claims about what a call leaves alone *)

\* C25: save_snapshot(account, ..., date) changes only the stored snapshot
\* of that one (account, date) key: the snapshots of every other account
\* and of every other date of the same account are left as they were,
\* whatever calls came before; get_snapshot, get_latest_snapshot and
\* calculate_period_change leave the whole store unchanged.
C25_SaveChangesOneKey ==
    [][ /\ last'.op \in {"get_snapshot", "get_latest_snapshot",
                         "calculate_period_change"} => s3' = s3
        /\ s3' # s3 =>
              LET key == SnapshotKey(last'.account, last'.date)
              IN  /\ last'.op = "save_snapshot"
                  /\ DOMAIN s3' = DOMAIN s3 \cup {key}
                  /\ \A k \in DOMAIN s3 \ {key} : s3'[k] = s3[k]
      ]_vars

\* a save that replaced the account's snapshot of one day while the
\* account's snapshot of another day, with other equity and cash, stayed
C25_Witness ==
    /\ last.op = "save_snapshot"
    /\ last.ret
    /\ last.before.kind = "some"
    /\ last.before.val.equity # last.quote.equity
    /\ \E d \in StoredDates(last.account) :
          /\ d # last.date
          /\ s3[SnapshotKey(last.account, d)].equity # last.quote.equity
          /\ s3[SnapshotKey(last.account, d)].cash # last.quote.cash

----------------------------------------------------------------------------
(* Claims about the session of the RobinhoodClient *)

\* C29: the client starts not logged in; it becomes logged in only by a
\* login() call that returns True, so a login() that returns False never
\* turns a client that is not logged in into one that is; every data
\* method raises 'Not logged in' when it is called while the client is not
\* logged in, before any successful login and after a successful logout.
C29_SessionState ==
    /\ [][(client = None /\ client' # None) => ~client'.logged_in]_vars
    /\ [][(client # None /\ ~client.logged_in /\ client'.logged_in) =>
              (last'.op = "login" /\ last'.ret)]_vars
    /\ [][(last = Returned /\ last'.op = "logout" /\ last'.fault = "none")
              => ~client'.logged_in]_vars
    /\ [](last.op \in DataMethods =>
              /\ last.before = client.logged_in
              /\ ~last.before => last.ret = Raised("RuntimeError"))

\* a method whose failures inside the try give an empty list, called after
\* a logout with the API answering: it raises
C29_Witness ==
    /\ last.op = "get_all_account_profiles"
    /\ last.api = "ok"
    /\ client = [logged_in |-> FALSE]
    /\ last.ret = Raised("RuntimeError")

----------------------------------------------------------------------------
(* Claims about lambda_handler *)

\* the places in the events of the invocation where call gave ret
Places(call, rets) ==
    {i \in 1..Len(handler.events) :
        handler.events[i].call = call /\ handler.events[i].ret \in rets}

Outcomes == {"ok", "false", "raise"}

Finished == handler.pc = "done"

StatusCode == handler.response.val.statusCode

\* the steps named as pipeline steps: secrets retrieval, session download,
\* login, portfolio analysis, retirement calculation, email send
PipelineSteps ==
    {"get_secrets", "download_session_from_s3", "login", "analyze",
     "RetirementConfig", "calculate_progress", "EmailService",
     "send_newsletter"}

Fatal ==
    \/ \E call \in {"get_secrets", "RobinhoodClient", "analyze",
                    "RetirementConfig", "calculate_progress",
                    "EmailService"} : Places(call, {"raise"}) # {}
    \/ Cardinality(Places("login", {"false"})) = 2
    \/ Places("send_newsletter", {"false", "raise"}) # {}

C26_NotSent ==
    /\ Finished
    /\ Places("send_newsletter", {"false"}) # {}
    /\ StatusCode = 500

\* C27: in every invocation in which the client was constructed logout is
\* attempted exactly once, as the last step, on the success path and on
\* every failure path; a failure of logout does not change the response;
\* when the failure comes before the client is constructed no logout is
\* attempted.
C27_LogoutLast ==
    /\ [](Finished =>
            IF Places("RobinhoodClient", {"ok"}) # {}
            THEN Places("logout", Outcomes) = {Len(handler.events)}
            ELSE Places("logout", Outcomes) = {})
    /\ [](~Finished /\ handler # Idle => Places("logout", Outcomes) = {})
    /\ [][handler.pc = "finally" =>
             handler'.response = handler.response]_vars

\* a run whose two logins failed and whose logout failed as well: logout
\* was the last step and the response is the 500 of the failed login
C27_Witness ==
    /\ Finished
    /\ Cardinality(Places("login", {"false"})) = 2
    /\ Places("logout", {"raise"}) = {Len(handler.events)}
    /\ StatusCode = 500
    /\ client = [logged_in |-> FALSE]

\* a run that failed before the client was constructed
C27_NoClient ==
    /\ Finished
    /\ Places("RobinhoodClient", {"raise"}) # {}
    /\ Places("logout", Outcomes) = {}
    /\ client = None

\* C28: a second login is attempted only after the first, with the cached
\* session, returned failure; send_approval_alert is called before that
\* second attempt, never when the first login succeeds, and publishes
\* only if the topic is configured; the session is uploaded only right
\* after a successful second login and only when SESSION_BUCKET is
\* configured; if the second login fails too the run ends with 500 and
\* without analysis, snapshot write or email send.
C28_LoginProtocol ==
    handler # Idle =>
        LET logins == Places("login", Outcomes)
            failed == Places("login", {"false"})
            alerts == Places("send_approval_alert", Outcomes)
            publishes == Places("sns.publish", Outcomes)
            uploads == Places("upload_session_to_s3", Outcomes)
            first == CHOOSE i \in logins : \A j \in logins : i <= j
            second == CHOOSE i \in logins : \A j \in logins : j <= i
        IN  /\ Cardinality(logins) <= 2
            /\ Cardinality(logins) = 2 =>
                  /\ first \in failed
                  /\ \E k \in alerts : first < k /\ k < second
            /\ alerts # {} <=> (logins # {} /\ first \in failed)
            /\ Cardinality(alerts) <= 1
            /\ \A k \in alerts : k = first + 1
            /\ publishes # {} <=> (alerts # {} /\ handler.env.ALERT_TOPIC_ARN)
            /\ \A p \in publishes : p - 1 \in alerts
            /\ \A u \in uploads :
                  /\ handler.env.SESSION_BUCKET
                  /\ Cardinality(logins) = 2
                  /\ u = second + 1
                  /\ second \notin failed
            /\ (Cardinality(logins) = 2 /\ second \notin failed
                   /\ handler.env.SESSION_BUCKET
                   /\ handler.pc # "fresh_login") => uploads # {}
            /\ Cardinality(failed) = 2 =>
                  /\ handler.pc \in {"finally", "done"}
                  /\ StatusCode = 500
                  /\ \A call \in {"analyze", "save_snapshot",
                                  "send_newsletter", "EmailService",
                                  "calculate_progress"} :
                        Places(call, Outcomes) = {}
                  /\ s3 = << >>

\* a finished run: the cached login failed, the alert was published, the
\* fresh login succeeded, the session was uploaded and the email was sent
C28_Witness ==
    /\ Finished
    /\ Places("login", {"false"}) # {}
    /\ Places("sns.publish", {"ok"}) # {}
    /\ Places("login", {"ok"}) # {}
    /\ Places("upload_session_to_s3", {"ok"}) # {}
    /\ StatusCode = 200

\* a finished run in which both logins failed
C28_BothFailed ==
    /\ Finished
    /\ Cardinality(Places("login", {"false"})) = 2
    /\ StatusCode = 500

\* C30: in every PortfolioReport combined_retirement_value is the total
\* value of the individual account report plus that of the IRA account
\* report, an absent account counting as 0; the value passed to the
\* retirement calculation is combined_retirement_value when that is not
\* zero, and the report's total_value otherwise.
C30_CombinedRetirementValue ==
    /\ (handler # Idle /\ handler.report # None) =>
          LET report == handler.report.val
              individual == IF report.individual_account = None THEN 0
                            ELSE report.individual_account.val.total_value
              ira == IF report.ira_account = None THEN 0
                     ELSE report.ira_account.val.total_value
          IN  report.combined_retirement_value = individual + ira
    /\ (handler # Idle /\ handler.retirement_value # None) =>
          LET report == handler.report.val
          IN  handler.retirement_value.val =
                 IF report.combined_retirement_value # 0
                 THEN report.combined_retirement_value
                 ELSE report.total_value

\* a report with both accounts, whose combined value went into the
\* retirement calculation
C30_Witness ==
    /\ handler # Idle
    /\ handler.retirement_value # None
    /\ handler.report.val.individual_account # None
    /\ handler.report.val.ira_account # None
    /\ handler.report.val.individual_account.val.total_value = 10000
    /\ handler.report.val.ira_account.val.total_value = 10000
    /\ handler.retirement_value.val = 20000
    /\ handler.report.val.total_value = 10000

\* a report without accounts, from the legacy path: the combined value is
\* zero and the total value went into the retirement calculation
C30_Legacy ==
    /\ handler # Idle
    /\ handler.retirement_value # None
    /\ handler.report.val.individual_account = None
    /\ handler.report.val.ira_account = None
    /\ handler.report.val.combined_retirement_value = 0
    /\ handler.retirement_value.val = 10000

====
